---- MODULE Spec2Model ----
(***************************************************************************)
(* Position reconciliation and freshness-cached aggregation of the crvUSD  *)
(* savor API.  Five serverless handlers share one Redis cache store:       *)
(*   "lending"     src/api/lending.ts     POST  (per chain, block watermark)*)
(*   "savings"     src/api/savings.ts     GET   (per chain, on-chain logs)  *)
(*   "multi"       src/unnamed/part_001   handler (all chains, indexed API) *)
(*   "usersavings" src/unnamed/part_002   handler (indexed savings API)     *)
(*   "infos"       src/unnamed/part_000   GET   (vault-wide statistics)     *)
(* Every handler is stateless apart from the cache store and writes only   *)
(* keys of its own namespace, so a behaviour exercises one handler (route) *)
(* against one world; Init ranges over all routes and all worlds.          *)
(*                                                                         *)
(* Numbers: on-chain amounts are uint256 base units with 18 fractional     *)
(* digits.  A raw amount is written <<m, e>> for m * 10^e base units and   *)
(* Number(formatUnits(raw, 18)) is m * 10^(e - 18).  The worlds hold whole *)
(* token amounts, which IEEE doubles represent and add exactly.            *)
(***************************************************************************)
EXTENDS Integers, Sequences, FiniteSets, TLC

VARIABLES
    route,      \* the handler this deployment behaviour exercises
    env,        \* process.env: the set of configured variable names
    now,        \* wall clock in ms, as read by new Date()
    ticks,      \* number of clock advances so far
    redis,      \* Cache Store: key -> parsed JSON {updateTimestamp, data}
    chainLogs,  \* world: the Deposit/Withdraw events emitted by the vaults
    rates,      \* world: the lend APY the vault catalog reports for each vault
    focus,      \* the supported chain this behaviour's requests ask for
    pc,         \* position of the in-flight request in its handler
    req,        \* the request: [method, user, chain]
    loc,        \* the handler's local variables
    io,         \* calls made on behalf of the in-flight request
    res,        \* the response sent for it
    other       \* a second instance of the function: its pc, req, loc, io, res

vars == <<route, env, now, ticks, redis, chainLogs, rates, focus, pc, req, loc, io, res, other>>

-----------------------------------------------------------------------------
(* Bounds of the model *)

MaxEvents == 2      \* events in the world's ledger
MaxTicks == 2       \* clock advances in one behaviour
PricePerShare == 2  \* assets redeemable per vault share
MaxPages == 2       \* pages requested by one fetchSavingsEvents

-----------------------------------------------------------------------------
(* Program constants *)

Decimals == 18
MsPerMinute == 60 * 1000
PositionCacheMinutes == 60
InfosCacheMinutes == 20
NegInfinity == -1   \* Math.max() of no arguments; below every block number

Routes == {"lending", "savings", "multi", "usersavings", "infos"}

EventTypeDeposit == "deposit"
EventTypeWithdraw == "withdraw"

SupportedChains == {"ethereum", "arbitrum"}
SupportedChainsMulti == {"ethereum", "arbitrum", "fraxtal"}

-----------------------------------------------------------------------------
(* The world the collaborators expose *)

\* the strings isAddress accepts
ValidUsers == {"0xA11ce", "0xB0b"}
\* requests come for one fixed user, for a malformed address, and for
\* whoever else has events in the ledger
RequestUsers == {"0xA11ce", "alice.eth"} \cup {chainLogs[i].owner : i \in DOMAIN chainLogs}
RequestChains == {focus, "optimism"}

Null == [isNull |-> TRUE]
NoResponse == [status |-> 0]

\* 10^n
RECURSIVE Pow10(_)
Pow10(n) == IF n = 0 THEN 1 ELSE 10 * Pow10(n - 1)

Tokens(n) == <<n, Decimals>>
RawAmounts == {Tokens(50), Tokens(60)}
ShareBalances == {Tokens(0), Tokens(45)}

\* the lend APY the catalog reports for each vault when a behaviour starts
ListedRates ==
    [v \in {"0x8cf1", "0x5AE2", "0xb2b2", "0x4901", "0x0b71"} |->
        CASE v = "0x8cf1" -> 5
          [] v = "0x5AE2" -> 3
          [] v = "0xb2b2" -> 0
          [] v = "0x4901" -> 4
          [] OTHER -> 2]

\* api.curve.fi getLendingVaults: the vaults of a chain
ApiVaults(chain) ==
    CASE chain = "ethereum" ->
           << [address |-> "0x8cf1", collateral |-> "wstETH", borrowed |-> "crvUSD",
               lendApyPcent |-> rates["0x8cf1"], blockchainId |-> "ethereum"],
              [address |-> "0x5AE2", collateral |-> "WETH", borrowed |-> "crvUSD",
               lendApyPcent |-> rates["0x5AE2"], blockchainId |-> "ethereum"],
              [address |-> "0xb2b2", collateral |-> "tBTC", borrowed |-> "crvUSD",
               lendApyPcent |-> rates["0xb2b2"], blockchainId |-> "ethereum"] >>
      [] chain = "arbitrum" ->
           << [address |-> "0x4901", collateral |-> "crvUSD", borrowed |-> "WETH",
               lendApyPcent |-> rates["0x4901"], blockchainId |-> "arbitrum"] >>
      [] chain = "optimism" ->
           << [address |-> "0x0b71", collateral |-> "OP", borrowed |-> "crvUSD",
               lendApyPcent |-> rates["0x0b71"], blockchainId |-> "optimism"] >>
      [] OTHER -> << >>

SavingsVault == "0x0655"

ChainOfVault(v) ==
    CASE v \in {"0x8cf1", "0x5AE2", "0xb2b2", SavingsVault} -> "ethereum"
      [] v = "0x4901" -> "arbitrum"
      [] OTHER -> "optimism"

\* the block in which each vault was deployed
InceptionBlock(v) ==
    CASE v = "0x8cf1" -> 19422666
      [] v = "0x5AE2" -> 19422678
      [] v = "0xb2b2" -> 19422684
      [] v = "0x4901" -> 193652607
      [] v = SavingsVault -> 21087889
      [] OTHER -> 0

\* the n-th event of the ledger is mined n blocks after its vault's inception
BlockOf(e) == InceptionBlock(e.vault) + e.n
\* its block time, in seconds
DtOf(e) == e.n

LedgerEvents(vaults) ==
    [vault : vaults, owner : {"0xA11ce"}, eventName : {"Deposit", "Withdraw"},
     assets : RawAmounts]

Ledgers(vaults) ==
    UNION { { [i \in 1..k |-> [vault |-> f[i].vault, owner |-> f[i].owner,
                                eventName |-> f[i].eventName,
                                assets |-> f[i].assets, n |-> i]]
              : f \in [1..k -> LedgerEvents(vaults)] } : k \in 0..MaxEvents }

\* the vaults whose events a request of route r on chain c can observe
RouteVaults(r, c) ==
    CASE r = "lending" -> IF c = "ethereum" THEN {"0x8cf1", "0x5AE2"} ELSE {"0x4901"}
      [] r = "multi" -> {"0x8cf1", "0x5AE2"}
      [] r \in {"savings", "usersavings"} -> {SavingsVault}
      [] OTHER -> {}

RouteChains(r) ==
    IF r \in {"lending", "savings"} THEN {"ethereum", "arbitrum"} ELSE {"ethereum"}

-----------------------------------------------------------------------------
(* Library functions *)

IsAddress(u) == u \in ValidUsers

\* Number(formatUnits(raw, decimals))
FormatUnits(raw, decimals) == raw[1] * Pow10(raw[2] - decimals)

\* ERC-4626 previewRedeem(shares)
PreviewRedeem(shares) == <<shares[1] * PricePerShare, shares[2]>>

\* Array.prototype.sort((a, b) => key(b) - key(a)): stable, descending
\* on the records' field `key`
InsertDesc(sorted, x, key) ==
    LET p == Cardinality({j \in 1..Len(sorted) : sorted[j][key] >= x[key]})
    IN  SubSeq(sorted, 1, p) \o << x >> \o SubSeq(sorted, p + 1, Len(sorted))

SortDesc(s, key) ==
    LET r[i \in 0..Len(s)] ==
            IF i = 0 THEN << >> ELSE InsertDesc(r[i - 1], s[i], key)
    IN  r[Len(s)]

\* a running balance that is never let below zero
ReduceAmountsFloored(events, onDeposit, onWithdraw) ==
    LET r[i \in 0..Len(events)] ==
            IF i = 0 THEN 0
            ELSE LET next == IF events[i].type = "deposit"
                             THEN r[i - 1] + onDeposit * events[i].amount
                             ELSE r[i - 1] + onWithdraw * events[i].amount
                 IN  IF next < 0 THEN 0 ELSE next
    IN  r[Len(events)]

\* events.reduce((acc, event) => acc + sign(event.type) * event.amount, 0),
\* where deposits count onDeposit times and withdrawals onWithdraw times
ReduceAmounts(events, onDeposit, onWithdraw) ==
    LET r[i \in 0..Len(events)] ==
            IF i = 0 THEN 0
            ELSE IF events[i].type = "deposit"
                 THEN r[i - 1] + onDeposit * events[i].amount
                 ELSE r[i - 1] + onWithdraw * events[i].amount
    IN  r[Len(events)]

\* Math.max(...xs)
MathMax(xs) ==
    LET r[i \in 0..Len(xs)] ==
            IF i = 0 THEN NegInfinity
            ELSE IF xs[i] > r[i - 1] THEN xs[i] ELSE r[i - 1]
    IN  r[Len(xs)]

Abs(x) == IF x < 0 THEN -x ELSE x

-----------------------------------------------------------------------------
(* Cache Store *)

\* the window boundary counted as stale
IsCacheEntryUpdateNeededInclusive(updateTimestamp, minutesCacheInterval) ==
    Abs(updateTimestamp - now) >= minutesCacheInterval * MsPerMinute

\* the signed age, without Math.abs
IsCacheEntryUpdateNeededSigned(updateTimestamp, minutesCacheInterval) ==
    now - updateTimestamp > minutesCacheInterval * MsPerMinute

\* the comparison turned around
IsCacheEntryUpdateNeededInverted(updateTimestamp, minutesCacheInterval) ==
    Abs(updateTimestamp - now) < minutesCacheInterval * MsPerMinute

\* minutesBetweenDates = msBetweenDates / (60 * 1000) is a real division, so
\* minutesBetweenDates > minutesCacheInterval iff ms > interval * 60000
IsCacheEntryUpdateNeeded(updateTimestamp, minutesCacheInterval) ==
    LET msBetweenDates == Abs(updateTimestamp - now)
    IN  msBetweenDates > minutesCacheInterval * MsPerMinute

\* JSON.stringify then JSON.parse of a number: -Infinity becomes null
JsonNumber(x) == IF x = NegInfinity THEN Null ELSE [isNull |-> FALSE, n |-> x]

\* SET NX: an entry already under the key is kept
SetRedisCacheEntryFirstWins(store, cacheKey, data) ==
    IF cacheKey \in DOMAIN store THEN store
    ELSE (cacheKey :> [updateTimestamp |-> now, data |-> data]) @@ store

SetRedisCacheEntry(store, cacheKey, data) ==
    (cacheKey :> [updateTimestamp |-> now, data |-> data]) @@ store

GetRedisCacheEntry(store, cacheKey) ==
    IF cacheKey \in DOMAIN store THEN store[cacheKey] ELSE Null

CacheGet(key) == <<"redis.get", key>>
CacheSet(key) == <<"redis.set", key>>
IsCacheIo(c) == c[1] \in {"redis.get", "redis.set"}

NoLocals == [isNull |-> TRUE]

Respond(status, body) ==
    /\ res' = [status |-> status, body |-> body]
    /\ pc' = "done"

\* an early return: nothing was read, nothing was called
Reject(r) ==
    /\ Respond(r.status, r.body)
    /\ io' = {}
    /\ loc' = NoLocals

CanReceive == pc \in {"idle", "done"}

\* an instance that has not served any request yet
IdleInstance ==
    [pc |-> "idle", req |-> [method |-> "POST", user |-> "", chain |-> ""],
     loc |-> NoLocals, io |-> {}, res |-> NoResponse]

-----------------------------------------------------------------------------
(* src/api/lending.ts *)

\* the value undefined: no block number
Undefined == -2

\* lines 129-183: the cases of the switch on the vault address for ethereum,
\* in the order of the source; addresses are written by their first four
\* hexadecimal digits
EthereumStartBlocks ==
    <<
       <<"0x8cf1", 19422666>>, <<"0x5AE2", 19422678>>, <<"0xb2b2", 19422684>>,
       <<"0xCeA1", 19422691>>, <<"0x4D2f", 19422706>>, <<"0x4619", 19468672>>,
       <<"0x99Cf", 19468701>>, <<"0x5209", 19481927>>, <<"0x7586", 19707458>>,
       <<"0xccd3", 19800634>>, <<"0xff46", 19801071>>, <<"0x4a79", 19999153>>,
       <<"0x8fb1", 20034869>>, <<"0x21CF", 20035301>>, <<"0xc687", 20148558>>,
       <<"0xd0c1", 20157147>>, <<"0x8390", 20249759>>, <<"0x1436", 20325474>>,
       <<"0xECd4", 20340672>>, <<"0xA508", 20420349>>, <<"0x0111", 20420974>>,
       <<"0x7F6F", 20629979>>, <<"0xC6F7", 20899272>>, <<"0x5203", 20925172>>,
       <<"0x2707", 20941819>>, <<"0x88BD", 21030792>>, <<"0xc9cC", 21031049>> >>

\* line 185
EthereumDefaultBlock == 21031049

\* lines 190-231: the cases for arbitrum
ArbitrumStartBlocks ==
    <<
       <<"0x4901", 193652607>>, <<"0x60D3", 193652708>>, <<"0xB504", 195190204>>,
       <<"0x7d62", 195721892>>, <<"0xeEaF", 196070126>>, <<"0x6559", 196070155>>,
       <<"0xb563", 198287645>>, <<"0xebA5", 198472455>>, <<"0x2415", 199919802>>,
       <<"0xd3cA", 219516379>>, <<"0xe07f", 219516420>>, <<"0xa6C2", 219516457>>,
       <<"0x9D3F", 219516500>>, <<"0xC824", 230535746>>, <<"0xd595", 244549364>>,
       <<"0xe296", 244552387>>, <<"0x2dA7", 255155893>>, <<"0x0E6A", 256880630>>,
       <<"0x13E7", 268471020>>, <<"0x744D", 268471535>>, <<"0x6CFE", 268473102>> >>

\* line 233
ArbitrumDefaultBlock == 268473102

\* switch (x) { case k: return v; ... default: return d }
SwitchReturn(cases, default, x) ==
    LET hits == {i \in 1..Len(cases) : cases[i][1] = x}
    IN  IF hits = {} THEN default
        ELSE cases[CHOOSE i \in hits : \A j \in hits : i <= j][2]

\* an address without a case gets the block of the first case
GetLendingVaultStartBlockOldest(chain, vaultAddress) ==
    CASE chain = "ethereum" ->
           SwitchReturn(EthereumStartBlocks, EthereumStartBlocks[1][2], vaultAddress)
      [] chain = "arbitrum" ->
           SwitchReturn(ArbitrumStartBlocks, ArbitrumStartBlocks[1][2], vaultAddress)
      [] OTHER -> Undefined

\* lines 123-239
GetLendingVaultStartBlock(chain, vaultAddress) ==
    CASE chain = "ethereum" ->
           SwitchReturn(EthereumStartBlocks, EthereumDefaultBlock, vaultAddress)
      [] chain = "arbitrum" ->
           SwitchReturn(ArbitrumStartBlocks, ArbitrumDefaultBlock, vaultAddress)
      [] OTHER -> Undefined

LendingFetchVaultsList(chain) ==
    LET vaults == SelectSeq(ApiVaults(chain), LAMBDA vault : vault.lendApyPcent > 0)
    IN  [i \in 1..Len(vaults) |->
            [collateral |-> vaults[i].collateral,
             borrowed |-> vaults[i].borrowed,
             address |-> vaults[i].address,
             lendApyPcent |-> vaults[i].lendApyPcent,
             chainId |-> vaults[i].blockchainId]]

\* createContractEventFilter + getFilterLogs
FilterLogs(vault, eventName, owner, fromBlock) ==
    SelectSeq(chainLogs, LAMBDA e : /\ e.vault = vault
                                    /\ e.eventName = eventName
                                    /\ e.owner = owner
                                    /\ BlockOf(e) >= fromBlock)

LogToEvent(type, event) ==
    [type |-> type,
     amount |-> IF event.assets[1] # 0 THEN FormatUnits(event.assets, Decimals) ELSE 0,
     hash |-> event.n,
     blockNumber |-> BlockOf(event)]

LogsToEvents(depositEvents, withdrawEvents) ==
    [i \in 1..Len(depositEvents) |-> LogToEvent(EventTypeDeposit, depositEvents[i])]
      \o [i \in 1..Len(withdrawEvents) |->
             LogToEvent(EventTypeWithdraw, withdrawEvents[i])]

\* lines 436-446
LendingTotalDeposited(redeemValue, events) ==
    IF redeemValue > 0 /\ Len(events) > 0
    THEN ReduceAmounts(events, 1, -1)
    ELSE 0

\* the figure drifts with the time of the computation
LendingEarningsTimed(redeemValue, totalDeposited) ==
    redeemValue - totalDeposited + now

\* line 448
LendingEarnings(redeemValue, totalDeposited) == redeemValue - totalDeposited

\* the scan resumes after the block of the watermark
LendingStartBlockExclusive(chain, vaultAddress, lastUserEventBlockNumber) ==
    IF lastUserEventBlockNumber # Null
    THEN lastUserEventBlockNumber.n + 1
    ELSE GetLendingVaultStartBlock(chain, vaultAddress)

\* lines 354-356
LendingStartBlock(chain, vaultAddress, lastUserEventBlockNumber) ==
    IF lastUserEventBlockNumber # Null
    THEN lastUserEventBlockNumber.n
    ELSE GetLendingVaultStartBlock(chain, vaultAddress)

\* one iteration of the for loop, lines 353-477
LendingVaultResult(vault, chain, userAddress, lastUserEventBlockNumber, shares) ==
    LET startBlock == LendingStartBlock(chain, vault.address, lastUserEventBlockNumber)
        depositEvents == FilterLogs(vault.address, "Deposit", userAddress, startBlock)
        withdrawEvents == FilterLogs(vault.address, "Withdraw", userAddress, startBlock)
        redeemValueRaw == PreviewRedeem(shares)
        redeemValue == FormatUnits(redeemValueRaw, Decimals)
        events == SortDesc(LogsToEvents(depositEvents, withdrawEvents), "blockNumber")
        totalDeposited == LendingTotalDeposited(redeemValue, events)
        earnings == LendingEarnings(redeemValue, totalDeposited)
    IN  [calc |-> [vault |-> vault.address,
                   fromBlock |-> startBlock,
                   events |-> events,
                   redeemValue |-> redeemValue,
                   deposited |-> totalDeposited,
                   earnings |-> earnings],
         pushed |-> [vault |-> vault.address,
                     redeemValue |-> redeemValue,
                     earnings |-> earnings,
                     collateral |-> vault.collateral,
                     borrowed |-> vault.borrowed,
                     chainId |-> vault.chainId,
                     lendApyPcent |-> vault.lendApyPcent,
                     events |-> LogsToEvents(depositEvents, withdrawEvents)]]

LendingCacheKey(chain, userAddress) == "lending-" \o chain \o "-" \o userAddress
LendingLastEventBlockKey(chain, userAddress) ==
    "lending-" \o chain \o "-" \o userAddress \o "-last-event-block"

\* the chain is not checked
LendingValidateNoChain(environment, user, chain) ==
    IF "REDIS_URL" \notin environment
    THEN [status |-> 500, body |-> [message |-> "Redis server URL is not set"]]
    ELSE IF ~IsAddress(user)
    THEN [status |-> 400, body |-> [message |-> "Invalid user address"]]
    ELSE Null

\* lines 313-325: the early returns; Null when the request is accepted
LendingValidate(environment, user, chain) ==
    IF "REDIS_URL" \notin environment
    THEN [status |-> 500, body |-> [message |-> "Redis server URL is not set"]]
    ELSE IF ~IsAddress(user)
    THEN [status |-> 400, body |-> [message |-> "Invalid user address"]]
    ELSE IF chain \notin SupportedChains
    THEN [status |-> 400, body |-> [message |-> "Unsupported chain"]]
    ELSE Null

\* lines 312-335: configuration, validation, the two cache reads
LendingReceive ==
    /\ route = "lending"
    /\ CanReceive
    /\ \E user \in RequestUsers, chain \in RequestChains :
         /\ req' = [method |-> "POST", user |-> user, chain |-> chain]
         /\ IF LendingValidate(env, user, chain) # Null
            THEN /\ Reject(LendingValidate(env, user, chain))
            ELSE LET cacheKey == LendingCacheKey(chain, user)
                     lastUserEventBlockKey == LendingLastEventBlockKey(chain, user)
                     lastUserEventBlock == GetRedisCacheEntry(redis, lastUserEventBlockKey)
                 IN  /\ loc' = [cacheEntry |-> GetRedisCacheEntry(redis, cacheKey),
                                lastUserEventBlockNumber |->
                                    IF lastUserEventBlock # Null
                                    THEN lastUserEventBlock.data ELSE Null,
                                vaults |-> << >>,
                                inFlight |-> {},
                                allVaultsEvents |-> << >>,
                                calcs |-> << >>]
                     /\ io' = {CacheGet(cacheKey), CacheGet(lastUserEventBlockKey)}
                     /\ pc' = "lending.cached"
                     /\ res' = NoResponse
    /\ UNCHANGED <<rates, other, route, env, now, ticks, redis, chainLogs, focus>>

\* lines 341-351: serve the fresh entry, or start a refresh
LendingCheckCache ==
    /\ pc = "lending.cached"
    /\ IF /\ loc.cacheEntry # Null
          /\ ~IsCacheEntryUpdateNeeded(loc.cacheEntry.updateTimestamp, PositionCacheMinutes)
       THEN /\ Respond(200, [status |-> "success", data |-> loc.cacheEntry.data])
            /\ UNCHANGED <<loc, io>>
       ELSE /\ loc' = [loc EXCEPT !.vaults = LendingFetchVaultsList(req.chain)]
            /\ io' = io \cup {<<"catalog", req.chain>>}
            /\ pc' = "lending.loop"
            /\ UNCHANGED res
    /\ UNCHANGED <<rates, other, route, env, now, ticks, redis, chainLogs, focus, req>>

\* the loop is left while one vault is still to be processed
LendingLoopDoneEarly(vaults) == Len(vaults) <= 1

\* line 353: for (const vault of vaults) has gone through every vault
LendingLoopDone(vaults) == vaults = << >>

\* lines 353-400: the loop takes the next vault and awaits its reads; the
\* reads of the following vault are issued only by the next iteration
LendingVaultReads ==
    /\ pc = "lending.loop"
    /\ loc.vaults # << >>
    /\ loc.inFlight = {}
    /\ loc' = [loc EXCEPT !.inFlight = {Head(loc.vaults).address}]
    /\ UNCHANGED <<rates, other, route, env, now, ticks, redis, chainLogs, focus, pc, req, io, res>>

\* lines 353-477: the reads of the vault are back, its snapshot is pushed
LendingVault ==
    /\ pc = "lending.loop"
    /\ loc.vaults # << >>
    /\ loc.inFlight # {}
    /\ \E shares \in ShareBalances :
         LET vault == Head(loc.vaults)
             r == LendingVaultResult(vault, req.chain, req.user,
                                     loc.lastUserEventBlockNumber, shares)
         IN  /\ loc' = [loc EXCEPT !.vaults = Tail(@),
                                   !.inFlight = {},
                                   !.allVaultsEvents = Append(@, r.pushed),
                                   !.calcs = Append(@, r.calc)]
             /\ io' = io \cup {<<"events", vault.address>>,
                               <<"balanceOf", vault.address>>,
                               <<"previewRedeem", vault.address>>}
    /\ UNCHANGED <<rates, other, route, env, now, ticks, redis, chainLogs, focus, pc, req, res>>

\* the snapshots computed so far are sent as a success
LendingOnRejectionPartial(allVaultsEvents) ==
    [status |-> 200, body |-> [status |-> "success", allVaultsEvents |-> allVaultsEvents]]

\* no await of the handler is inside a try: a rejected call rejects POST
\* itself, and the runtime answers 500 for the function
LendingOnRejection(allVaultsEvents) ==
    [status |-> 500, body |-> [message |-> "FUNCTION_INVOCATION_FAILED"]]

\* line 350: the vaults list cannot be fetched
LendingCatalogFail ==
    /\ pc = "lending.cached"
    /\ IF loc.cacheEntry = Null THEN TRUE
       ELSE IsCacheEntryUpdateNeeded(loc.cacheEntry.updateTimestamp, PositionCacheMinutes)
    /\ io' = io \cup {<<"catalog", req.chain>>}
    /\ LET r == LendingOnRejection(loc.allVaultsEvents)
       IN  Respond(r.status, r.body)
    /\ UNCHANGED <<rates, other, route, env, now, ticks, redis, chainLogs, focus, req, loc>>

\* lines 358-400: the event filters, balanceOf, or the logs and previewRedeem
\* of the vault being read fail
LendingVaultFail ==
    /\ pc = "lending.loop"
    /\ loc.inFlight # {}
    /\ \E failing \in {"events", "balanceOf", "previewRedeem"} :
         LET vault == Head(loc.vaults).address
         IN  io' = io \cup {<<"events", vault>>}
                     \cup (IF failing = "events" THEN {} ELSE {<<"balanceOf", vault>>})
                     \cup (IF failing = "previewRedeem"
                           THEN {<<"previewRedeem", vault>>} ELSE {})
    /\ LET r == LendingOnRejection(loc.allVaultsEvents)
       IN  Respond(r.status, r.body)
    /\ UNCHANGED <<rates, other, route, env, now, ticks, redis, chainLogs, focus, req, loc>>

\* the block of the oldest event of the cycle
LendingLastBlockOldest(allVaultsEvents) ==
    LET blocks == UNION { { allVaultsEvents[v].events[i].blockNumber :
                              i \in 1..Len(allVaultsEvents[v].events) } :
                          v \in 1..Len(allVaultsEvents) }
    IN  IF blocks = {} THEN NegInfinity
        ELSE CHOOSE b \in blocks : \A c \in blocks : b <= c

\* lines 479-483
LendingLastBlock(allVaultsEvents) ==
    MathMax([v \in 1..Len(allVaultsEvents) |->
                MathMax([i \in 1..Len(allVaultsEvents[v].events) |->
                            allVaultsEvents[v].events[i].blockNumber])])

\* lines 479-486: the watermark of the cycle and the first of the two sets
\* issued inside Promise.all. The two sets are separate commands to the store:
\* commands of other instances can be served between them.
LendingWriteWatermark ==
    /\ pc = "lending.loop"
    /\ LendingLoopDone(loc.vaults)
    /\ LET lastUserEventBlockKey == LendingLastEventBlockKey(req.chain, req.user)
           lastBlock == LendingLastBlock(loc.allVaultsEvents)
       IN  /\ redis' = SetRedisCacheEntry(redis, lastUserEventBlockKey,
                                          JsonNumber(lastBlock))
           /\ io' = io \cup {CacheSet(lastUserEventBlockKey)}
    /\ pc' = "lending.write"
    /\ UNCHANGED <<rates, other, route, env, now, ticks, chainLogs, focus, req, loc, res>>

\* lines 487-493: the second set, and the response once both have settled
LendingFinish ==
    /\ pc = "lending.write"
    /\ LET cacheKey == LendingCacheKey(req.chain, req.user)
       IN  /\ redis' = SetRedisCacheEntry(redis, cacheKey, loc.allVaultsEvents)
           /\ io' = io \cup {CacheSet(cacheKey)}
           /\ Respond(200, [status |-> "success",
                            allVaultsEvents |-> loc.allVaultsEvents])
    /\ UNCHANGED <<rates, other, route, env, now, ticks, chainLogs, focus, req, loc>>

-----------------------------------------------------------------------------
(* src/unnamed/part_001: the multi-chain lending handler *)

RequestMethods == {"POST", "OPTIONS", "GET"}

\* prices.curve.fi /v1/lending/chains
ChainsList == << "ethereum", "arbitrum" >>

\* the list is the indexer's: it also lists chains the handler has no
\* settings for
ApiChainsLists == { ChainsList, << "ethereum", "optimism" >> }

\* lines 179-187: the environment variable holding the RPC endpoint
GetRpcUrl(chain) ==
    IF chain = "ethereum" THEN "ETHEREUM_RPC_URL"
    ELSE IF chain = "fraxtal" THEN "FRAXTAL_RPC_URL"
    ELSE "ARBITRUM_RPC_URL"

\* lines 189-197: the viem chain object
GetChainObject(chain) ==
    IF chain = "ethereum" THEN "mainnet"
    ELSE IF chain = "fraxtal" THEN "fraxtal"
    ELSE "arbitrum"

\* String.prototype.toLowerCase on the symbols of the catalog
ToLowerCase(str) ==
    CASE str = "crvUSD" -> "crvusd"
      [] str = "wstETH" -> "wsteth"
      [] str = "WETH" -> "weth"
      [] str = "tBTC" -> "tbtc"
      [] str = "OP" -> "op"
      [] OTHER -> str

\* the symbol is compared as written
MultiFetchVaultsListCaseSensitive(chain) ==
    LET vaults == SelectSeq(SelectSeq(ApiVaults(chain),
                                      LAMBDA vault : vault.lendApyPcent > 0),
                            LAMBDA vault : vault.collateral # "crvusd")
    IN  [i \in 1..Len(vaults) |->
            [collateral |-> vaults[i].collateral,
             borrowed |-> vaults[i].borrowed,
             address |-> vaults[i].address,
             lendApyPcent |-> vaults[i].lendApyPcent,
             chainId |-> vaults[i].blockchainId]]

\* lines 242-271
MultiFetchVaultsList(chain) ==
    LET vaults == SelectSeq(SelectSeq(ApiVaults(chain),
                                      LAMBDA vault : vault.lendApyPcent > 0),
                            LAMBDA vault : ToLowerCase(vault.collateral) # "crvusd")
    IN  [i \in 1..Len(vaults) |->
            [collateral |-> vaults[i].collateral,
             borrowed |-> vaults[i].borrowed,
             address |-> vaults[i].address,
             lendApyPcent |-> vaults[i].lendApyPcent,
             chainId |-> vaults[i].blockchainId]]

\* prices.curve.fi /v1/lending/vaults/{chain}/{vault}/{user}: the indexed events
ApiVaultEvents(chain, vaultAddress, userAddress) ==
    LET logs == SelectSeq(chainLogs, LAMBDA e : /\ e.vault = vaultAddress
                                                /\ ChainOfVault(e.vault) = chain
                                                /\ e.owner = userAddress)
    IN  [i \in 1..Len(logs) |->
            [event_type |-> logs[i].eventName, assets |-> logs[i].assets,
             transaction_hash |-> logs[i].n, dt |-> DtOf(logs[i])]]

\* new Date(dt).getTime()
DateGetTime(dt) == dt * 1000

\* events of a kind other than Deposit and Withdraw are left out
FetchVaultEventsKnownOnly(chain, vaultAddress, userAddress) ==
    LET events == SelectSeq(ApiVaultEvents(chain, vaultAddress, userAddress),
                            LAMBDA e : e.event_type \in {"Deposit", "Withdraw"})
    IN  SortDesc([i \in 1..Len(events) |->
                    [type |-> IF events[i].event_type = "Deposit"
                              THEN EventTypeDeposit ELSE EventTypeWithdraw,
                     amount |-> FormatUnits(events[i].assets, Decimals),
                     hash |-> events[i].transaction_hash,
                     timestamp |-> DateGetTime(events[i].dt),
                     chain |-> chain]],
                 "timestamp")

\* lines 273-293
FetchVaultEvents(chain, vaultAddress, userAddress) ==
    LET events == ApiVaultEvents(chain, vaultAddress, userAddress)
    IN  SortDesc([i \in 1..Len(events) |->
                    [type |-> IF events[i].event_type = "Deposit"
                              THEN EventTypeDeposit ELSE EventTypeWithdraw,
                     amount |-> FormatUnits(events[i].assets, Decimals),
                     hash |-> events[i].transaction_hash,
                     timestamp |-> DateGetTime(events[i].dt),
                     chain |-> chain]],
                 "timestamp")

\* the valuation is read for every vault
MultiReadsValuationAlways(events) == TRUE

\* line 318: the valuation is read only for a vault with events
MultiReadsValuation(events) == Len(events) > 0

\* lines 335-341
SumOfType(events, type) ==
    IF type = EventTypeDeposit
    THEN ReduceAmounts(events, 1, 0)
    ELSE ReduceAmounts(events, 0, 1)

\* deposited floored at zero
MultiPositionFloored(redeemValue, depositedInVault, withdrawnFromVault) ==
    LET net == depositedInVault - withdrawnFromVault
        deposited == IF redeemValue = 0 \/ net < 0 THEN 0 ELSE net
    IN  [deposited |-> deposited,
         earnings |-> IF redeemValue = 0 THEN withdrawnFromVault - depositedInVault
                      ELSE redeemValue - deposited]

\* lines 343-348
MultiPosition(redeemValue, depositedInVault, withdrawnFromVault) ==
    IF redeemValue = 0
    THEN [deposited |-> 0, earnings |-> withdrawnFromVault - depositedInVault]
    ELSE [deposited |-> depositedInVault - withdrawnFromVault,
          earnings |-> redeemValue - (depositedInVault - withdrawnFromVault)]

\* one iteration of the loop of fetchVaultsAndEventsForChain, lines 307-357
MultiVaultResult(vault, chain, userAddress, shares) ==
    LET events == FetchVaultEvents(chain, vault.address, userAddress)
        read == MultiReadsValuation(events)
        redeemValue == IF read THEN FormatUnits(PreviewRedeem(shares), Decimals) ELSE 0
        depositedInVault == IF read THEN SumOfType(events, EventTypeDeposit) ELSE 0
        withdrawnFromVault ==
            IF read THEN SumOfType(events, EventTypeWithdraw)
            ELSE 0
        p == MultiPosition(redeemValue, depositedInVault, withdrawnFromVault)
    IN  [read |-> read,
         calc |-> [vault |-> vault.address,
                   events |-> events,
                   redeemValue |-> redeemValue,
                   depositedInVault |-> depositedInVault,
                   withdrawnFromVault |-> withdrawnFromVault,
                   deposited |-> p.deposited,
                   earnings |-> p.earnings],
         pushed |-> [collateral |-> vault.collateral,
                     borrowed |-> vault.borrowed,
                     address |-> vault.address,
                     lendApyPcent |-> vault.lendApyPcent,
                     chainId |-> vault.chainId,
                     deposited |-> p.deposited,
                     redeemValue |-> redeemValue,
                     earnings |-> p.earnings,
                     events |-> events]]

\* one key for the positions of all users
MultiCacheKeyShared(userAddress) == "lending-positions"

\* line 385
MultiCacheKey(userAddress) == "lending-" \o userAddress

\* the address is checked before the configuration
MultiValidateAddressFirst(environment, method, user) ==
    IF method = "OPTIONS"
    THEN [status |-> 200, body |-> [end |-> TRUE]]
    ELSE IF method # "POST"
    THEN [status |-> 405, body |-> [message |-> "Method not allowed"]]
    ELSE IF ~IsAddress(user)
    THEN [status |-> 400, body |-> [message |-> "Invalid user address"]]
    ELSE IF "REDIS_URL" \notin environment
    THEN [status |-> 500, body |-> [message |-> "Redis server URL is not set"]]
    ELSE Null

\* lines 363-383: the early returns; Null when the request is accepted
MultiValidate(environment, method, user) ==
    IF method = "OPTIONS"
    THEN [status |-> 200, body |-> [end |-> TRUE]]
    ELSE IF method # "POST"
    THEN [status |-> 405, body |-> [message |-> "Method not allowed"]]
    ELSE IF "REDIS_URL" \notin environment
    THEN [status |-> 500, body |-> [message |-> "Redis server URL is not set"]]
    ELSE IF ~IsAddress(user)
    THEN [status |-> 400, body |-> [message |-> "Invalid user address"]]
    ELSE Null

\* lines 362-391: method, configuration, validation, the cache read
MultiReceive ==
    /\ route = "multi"
    /\ CanReceive
    /\ \E method \in RequestMethods, user \in RequestUsers :
         /\ req' = [method |-> method, user |-> user, chain |-> ""]
         /\ IF MultiValidate(env, method, user) # Null
            THEN /\ Reject(MultiValidate(env, method, user))
            ELSE LET cacheKey == MultiCacheKey(user)
                 IN  /\ loc' = [cacheEntry |-> GetRedisCacheEntry(redis, cacheKey),
                                chains |-> << >>,
                                chain |-> "",
                                vaults |-> << >>,
                                inFlight |-> {},
                                allVaultsEvents |-> << >>,
                                calcs |-> << >>]
                     /\ io' = {CacheGet(cacheKey)}
                     /\ pc' = "multi.cached"
                     /\ res' = NoResponse
    /\ UNCHANGED <<rates, other, route, env, now, ticks, redis, chainLogs, focus>>

\* lines 393-399: serve the fresh entry, or fetch the chains list
MultiCheckCache ==
    /\ pc = "multi.cached"
    /\ IF /\ loc.cacheEntry # Null
          /\ ~IsCacheEntryUpdateNeeded(loc.cacheEntry.updateTimestamp, PositionCacheMinutes)
       THEN /\ Respond(200, [status |-> "success", data |-> loc.cacheEntry.data])
            /\ UNCHANGED <<loc, io>>
       ELSE /\ \E chains \in ApiChainsLists : loc' = [loc EXCEPT !.chains = chains]
            /\ io' = io \cup {<<"chains", "all">>}
            /\ pc' = "multi.loop"
            /\ UNCHANGED res
    /\ UNCHANGED <<rates, other, route, env, now, ticks, redis, chainLogs, focus, req>>

\* lines 401-405 and 299-305: the next chain, its vault list
MultiChain ==
    /\ pc = "multi.loop"
    /\ loc.vaults = << >>
    /\ loc.chains # << >>
    /\ LET chain == Head(loc.chains)
       IN  /\ loc' = [loc EXCEPT !.chains = Tail(@),
                                 !.chain = chain,
                                 !.vaults = MultiFetchVaultsList(chain)]
           /\ io' = io \cup {<<"client", chain, GetChainObject(chain), GetRpcUrl(chain)>>,
                             <<"catalog", chain>>}
    /\ UNCHANGED <<rates, other, route, env, now, ticks, redis, chainLogs, focus, pc, req, res>>

\* lines 307-331: the loop takes the next vault of the chain and awaits its
\* reads one after the other
MultiVaultReads ==
    /\ pc = "multi.loop"
    /\ loc.vaults # << >>
    /\ loc.inFlight = {}
    /\ loc' = [loc EXCEPT !.inFlight = {Head(loc.vaults).address}]
    /\ UNCHANGED <<rates, other, route, env, now, ticks, redis, chainLogs, focus, pc, req, io, res>>

\* lines 307-357: the reads of the vault are back, its snapshot is pushed
MultiVault ==
    /\ pc = "multi.loop"
    /\ loc.vaults # << >>
    /\ loc.inFlight # {}
    /\ \E shares \in ShareBalances :
         LET vault == Head(loc.vaults)
             r == MultiVaultResult(vault, loc.chain, req.user, shares)
         IN  /\ loc' = [loc EXCEPT !.vaults = Tail(@),
                                   !.inFlight = {},
                                   !.allVaultsEvents = Append(@, r.pushed),
                                   !.calcs = Append(@, r.calc)]
             /\ io' = io \cup {<<"events", vault.address>>}
                         \cup (IF r.read THEN {<<"balanceOf", vault.address>>,
                                               <<"previewRedeem", vault.address>>}
                               ELSE {})
    /\ UNCHANGED <<rates, other, route, env, now, ticks, redis, chainLogs, focus, pc, req, res>>

\* as in lending.ts: nothing catches a rejected await
MultiOnRejection(allVaultsEvents) ==
    [status |-> 500, body |-> [message |-> "FUNCTION_INVOCATION_FAILED"]]

\* line 397: the chains list cannot be fetched
MultiChainsFail ==
    /\ pc = "multi.cached"
    /\ IF loc.cacheEntry = Null THEN TRUE
       ELSE IsCacheEntryUpdateNeeded(loc.cacheEntry.updateTimestamp, PositionCacheMinutes)
    /\ io' = io \cup {<<"chains", "all">>}
    /\ LET r == MultiOnRejection(loc.allVaultsEvents)
       IN  Respond(r.status, r.body)
    /\ UNCHANGED <<rates, other, route, env, now, ticks, redis, chainLogs, focus, req, loc>>

\* line 304: the vaults list of the next chain cannot be fetched
MultiCatalogFail ==
    /\ pc = "multi.loop"
    /\ loc.vaults = << >>
    /\ loc.chains # << >>
    /\ LET chain == Head(loc.chains)
       IN  io' = io \cup {<<"client", chain, GetChainObject(chain), GetRpcUrl(chain)>>,
                          <<"catalog", chain>>}
    /\ LET r == MultiOnRejection(loc.allVaultsEvents)
       IN  Respond(r.status, r.body)
    /\ UNCHANGED <<rates, other, route, env, now, ticks, redis, chainLogs, focus, req, loc>>

\* lines 308-331: the events, balanceOf or previewRedeem of the vault being
\* read fail; the valuation is only read for a vault with events
MultiVaultFail ==
    /\ pc = "multi.loop"
    /\ loc.inFlight # {}
    /\ \E failing \in {"events", "balanceOf", "previewRedeem"} :
         LET vault == Head(loc.vaults).address
         IN  /\ failing # "events" =>
                    MultiReadsValuation(FetchVaultEvents(loc.chain, vault, req.user))
             /\ io' = io \cup {<<"events", vault>>}
                         \cup (IF failing = "events" THEN {} ELSE {<<"balanceOf", vault>>})
                         \cup (IF failing = "previewRedeem"
                               THEN {<<"previewRedeem", vault>>} ELSE {})
    /\ LET r == MultiOnRejection(loc.allVaultsEvents)
       IN  Respond(r.status, r.body)
    /\ UNCHANGED <<rates, other, route, env, now, ticks, redis, chainLogs, focus, req, loc>>

\* lines 409-414: the cache write, the response
MultiFinish ==
    /\ pc = "multi.loop"
    /\ loc.vaults = << >>
    /\ loc.chains = << >>
    /\ LET cacheKey == MultiCacheKey(req.user)
       IN  /\ redis' = SetRedisCacheEntry(redis, cacheKey, loc.allVaultsEvents)
           /\ io' = io \cup {CacheSet(cacheKey)}
           /\ Respond(200, [status |-> "success", data |-> loc.allVaultsEvents])
    /\ UNCHANGED <<rates, other, route, env, now, ticks, chainLogs, focus, req, loc>>

-----------------------------------------------------------------------------
(* src/api/savings.ts: the per-chain savings handler *)

SavingsStartBlock == 21087889

SavingsCacheKey(chain, userAddress) == "savings-" \o chain \o "-" \o userAddress

\* lines 246-256
SavingsTotalDeposited(redeemValue, events) ==
    IF redeemValue > 0 /\ Len(events) > 0
    THEN ReduceAmounts(events, 1, -1)
    ELSE 0

\* line 258
SavingsTotalRevenues(redeemValue, totalDeposited) == redeemValue - totalDeposited

\* lines 84-94: the early returns; Null when the request is accepted
SavingsValidate(environment, user, chain) ==
    IF "REDIS_SERVER_URL" \notin environment
    THEN [status |-> 500, body |-> [message |-> "Redis server URL is not set"]]
    ELSE IF ~IsAddress(user)
    THEN [status |-> 400, body |-> [message |-> "Invalid user address"]]
    ELSE IF chain \notin SupportedChains
    THEN [status |-> 400, body |-> [message |-> "Invalid chain"]]
    ELSE Null

\* lines 83-132: configuration, validation, the cache read
SavingsReceive ==
    /\ route = "savings"
    /\ CanReceive
    /\ \E user \in RequestUsers, chain \in RequestChains :
         /\ req' = [method |-> "GET", user |-> user, chain |-> chain]
         /\ IF SavingsValidate(env, user, chain) # Null
            THEN /\ Reject(SavingsValidate(env, user, chain))
            ELSE LET cacheKey == SavingsCacheKey(chain, user)
                 IN  /\ loc' = [cacheEntry |-> GetRedisCacheEntry(redis, cacheKey),
                                calcs |-> << >>]
                     /\ io' = {CacheGet(cacheKey)}
                     /\ pc' = "savings.cached"
                     /\ res' = NoResponse
    /\ UNCHANGED <<rates, other, route, env, now, ticks, redis, chainLogs, focus>>

\* lines 134-136: serve the fresh entry, or go on to the chain reads
SavingsCheckCache ==
    /\ pc = "savings.cached"
    /\ IF /\ loc.cacheEntry # Null
          /\ ~IsCacheEntryUpdateNeeded(loc.cacheEntry.updateTimestamp, PositionCacheMinutes)
       THEN /\ Respond(200, [status |-> "success", data |-> loc.cacheEntry.data])
       ELSE /\ pc' = "savings.refresh"
            /\ UNCHANGED res
    /\ UNCHANGED <<rates, other, route, env, now, ticks, redis, chainLogs, focus, req, loc, io>>

\* lines 156-272: the chain reads, the calculation, the cache write
SavingsRefresh ==
    /\ pc = "savings.refresh"
    /\ \E shares \in ShareBalances :
         LET vault == SavingsVault
             depositLogs == FilterLogs(vault, "Deposit", req.user, SavingsStartBlock)
             withdrawLogs == FilterLogs(vault, "Withdraw", req.user, SavingsStartBlock)
             redeemValueRaw == PreviewRedeem(shares)
             allLogs == depositLogs \o withdrawLogs
             redeemValue == FormatUnits(redeemValueRaw, Decimals)
             events == SortDesc(LogsToEvents(depositLogs, withdrawLogs), "blockNumber")
             totalDeposited == SavingsTotalDeposited(redeemValue, events)
             totalRevenues == SavingsTotalRevenues(redeemValue, totalDeposited)
             cacheKey == SavingsCacheKey(req.chain, req.user)
         IN  /\ io' = io \cup {<<"events", vault>>, <<"balanceOf", vault>>,
                               <<"previewRedeem", vault>>}
                         \cup (IF Len(allLogs) = 0 THEN {} ELSE {CacheSet(cacheKey)})
             /\ IF Len(allLogs) = 0
                THEN /\ Respond(200, [status |-> "empty", totalDeposited |-> 0,
                                      totalRevenues |-> 0, events |-> << >>])
                     /\ loc' = [loc EXCEPT !.calcs =
                                   << [vault |-> vault, events |-> events,
                                       redeemValue |-> redeemValue,
                                       deposited |-> 0, earnings |-> 0] >>]
                     /\ UNCHANGED redis
                ELSE /\ redis' = SetRedisCacheEntry(redis, cacheKey,
                                     [totalDeposited |-> totalDeposited,
                                      totalRevenues |-> totalRevenues,
                                      events |-> events])
                     /\ loc' = [loc EXCEPT !.calcs =
                                   << [vault |-> vault, events |-> events,
                                       redeemValue |-> redeemValue,
                                       deposited |-> totalDeposited,
                                       earnings |-> totalRevenues] >>]
                     /\ Respond(200, [status |-> "success",
                                      totalDeposited |-> totalDeposited,
                                      totalRevenues |-> totalRevenues,
                                      events |-> events])
    /\ UNCHANGED <<rates, other, route, env, now, ticks, chainLogs, focus, req>>

-----------------------------------------------------------------------------
(* src/unnamed/part_002: the user-savings handler *)

PerPage == 10

\* prices.curve.fi /v1/crvusd/savings/{user}/stats: what the indexer reports
ApiTotalDeposited == {Tokens(0), Tokens(50)}

\* prices.curve.fi /v1/crvusd/savings/{user}/events: all events of the user
ApiSavingsEvents(userAddress) ==
    LET logs == SelectSeq(chainLogs,
                          LAMBDA e : e.vault = SavingsVault /\ e.owner = userAddress)
    IN  [i \in 1..Len(logs) |->
            [action_type |-> IF logs[i].eventName = "Deposit" THEN "deposit"
                             ELSE IF logs[i].eventName = "Withdraw" THEN "withdraw"
                             ELSE "transfer",
             assets |-> logs[i].assets, transaction_hash |-> logs[i].n,
             timestamp |-> DtOf(logs[i])]]

\* ...events?page={page}&per_page=10
ApiSavingsEventsPage(userAddress, page) ==
    LET all == ApiSavingsEvents(userAddress)
        from == (page - 1) * PerPage + 1
        to == IF page * PerPage < Len(all) THEN page * PerPage ELSE Len(all)
    IN  [count |-> Len(all), events |-> SubSeq(all, from, to)]

\* line 130: the loop condition
MorePages(count) == count % PerPage = 0

\* lines 138-149
MapSavingsEvents(allEvents) ==
    SortDesc([i \in 1..Len(allEvents) |->
                [type |-> IF allEvents[i].action_type = "deposit"
                          THEN EventTypeDeposit ELSE EventTypeWithdraw,
                 amount |-> FormatUnits(allEvents[i].assets, Decimals),
                 hash |-> allEvents[i].transaction_hash,
                 timestamp |-> DateGetTime(allEvents[i].timestamp),
                 chain |-> "ethereum"]],
             "timestamp")

\* the closed position keeps earnings = balance - deposited
UserSavingsPositionNoFlow(currentBalance, totalDepositedStat, events) ==
    IF currentBalance = 0
    THEN [totalDeposited |-> 0, totalRevenues |-> currentBalance - 0]
    ELSE [totalDeposited |-> totalDepositedStat,
          totalRevenues |-> currentBalance - totalDepositedStat]

\* lines 205-218
UserSavingsPosition(currentBalance, totalDepositedStat, events) ==
    IF currentBalance = 0
    THEN [totalDeposited |-> 0,
          totalRevenues |-> SumOfType(events, EventTypeWithdraw)
                              - SumOfType(events, EventTypeDeposit)]
    ELSE [totalDeposited |-> totalDepositedStat,
          totalRevenues |-> currentBalance - totalDepositedStat]

UserSavingsCacheKey(userAddress) == "savings-" \o userAddress

\* lines 157-175: the early returns; Null when the request is accepted
UserSavingsValidate(environment, method, user) ==
    IF method = "OPTIONS"
    THEN [status |-> 200, body |-> [end |-> TRUE]]
    ELSE IF method # "POST"
    THEN [status |-> 405, body |-> [message |-> "Method not allowed"]]
    ELSE IF "REDIS_URL" \notin environment
    THEN [status |-> 500, body |-> [message |-> "Redis server URL is not set"]]
    ELSE IF ~IsAddress(user)
    THEN [status |-> 400, body |-> [message |-> "Invalid user address"]]
    ELSE Null

\* lines 156-184: method, configuration, validation, the cache read
UserSavingsReceive ==
    /\ route = "usersavings"
    /\ CanReceive
    /\ \E method \in RequestMethods, user \in RequestUsers :
         /\ req' = [method |-> method, user |-> user, chain |-> ""]
         /\ IF UserSavingsValidate(env, method, user) # Null
            THEN /\ Reject(UserSavingsValidate(env, method, user))
            ELSE LET cacheKey == UserSavingsCacheKey(user)
                 IN  /\ loc' = [cacheEntry |-> GetRedisCacheEntry(redis, cacheKey),
                                savingsData |-> Null,
                                page |-> 0,
                                allEvents |-> << >>,
                                events |-> << >>,
                                calcs |-> << >>]
                     /\ io' = {CacheGet(cacheKey)}
                     /\ pc' = "usersavings.cached"
                     /\ res' = NoResponse
    /\ UNCHANGED <<rates, other, route, env, now, ticks, redis, chainLogs, focus>>

\* lines 186-188: serve the fresh entry, or go on to the statistics
UserSavingsCheckCache ==
    /\ pc = "usersavings.cached"
    /\ IF /\ loc.cacheEntry # Null
          /\ ~IsCacheEntryUpdateNeeded(loc.cacheEntry.updateTimestamp, PositionCacheMinutes)
       THEN /\ Respond(200, loc.cacheEntry.data)
       ELSE /\ pc' = "usersavings.stats"
            /\ UNCHANGED res
    /\ UNCHANGED <<rates, other, route, env, now, ticks, redis, chainLogs, focus, req, loc, io>>

\* lines 89-119 and 190-201: fetchSavingsData answers
UserSavingsStats ==
    /\ pc = "usersavings.stats"
    /\ \E balance \in ShareBalances, deposited \in ApiTotalDeposited :
         /\ loc' = [loc EXCEPT !.savingsData =
                        [isNull |-> FALSE,
                         current_balance |-> FormatUnits(PreviewRedeem(balance), Decimals),
                         total_deposited |-> FormatUnits(deposited, Decimals)]]
         /\ io' = io \cup {<<"stats", req.user>>}
         /\ pc' = "usersavings.events"
    /\ UNCHANGED <<rates, other, route, env, now, ticks, redis, chainLogs, focus, req, res>>

\* the zero result is also stored under the user's key
UserSavingsStatsFailCached ==
    /\ pc = "usersavings.stats"
    /\ io' = io \cup {<<"stats", req.user>>, CacheSet(UserSavingsCacheKey(req.user))}
    /\ redis' = SetRedisCacheEntry(redis, UserSavingsCacheKey(req.user),
                                   [totalDeposited |-> 0, currentBalance |-> 0,
                                    totalRevenues |-> 0, events |-> << >>])
    /\ Respond(200, [totalDeposited |-> 0, currentBalance |-> 0,
                     totalRevenues |-> 0, events |-> << >>])
    /\ UNCHANGED <<rates, other, route, env, now, ticks, chainLogs, focus, req, loc>>

\* lines 115-118 and 192-199: fetchSavingsData fails, the zero result
UserSavingsStatsFail ==
    /\ pc = "usersavings.stats"
    /\ io' = io \cup {<<"stats", req.user>>}
    /\ Respond(200, [totalDeposited |-> 0, currentBalance |-> 0,
                     totalRevenues |-> 0, events |-> << >>])
    /\ UNCHANGED <<rates, other, route, env, now, ticks, redis, chainLogs, focus, req, loc>>

\* lines 123-129: the first page of events
UserSavingsFirstPage ==
    /\ pc = "usersavings.events"
    /\ LET r == ApiSavingsEventsPage(req.user, 1)
       IN  /\ loc' = [loc EXCEPT !.page = 1,
                                 !.allEvents = r.events,
                                 !.events = IF MorePages(r.count) THEN << >>
                                            ELSE MapSavingsEvents(r.events)]
           /\ pc' = IF MorePages(r.count) THEN "usersavings.paging"
                    ELSE "usersavings.compute"
    /\ io' = io \cup {<<"events", SavingsVault>>}
    /\ UNCHANGED <<rates, other, route, env, now, ticks, redis, chainLogs, focus, req, res>>

\* lines 130-136: count never changes, so the loop goes on page after page
UserSavingsNextPage ==
    /\ pc = "usersavings.paging"
    /\ loc.page < MaxPages
    /\ LET r == ApiSavingsEventsPage(req.user, loc.page + 1)
       IN  loc' = [loc EXCEPT !.page = @ + 1,
                              !.allEvents = @ \o r.events]
    /\ UNCHANGED <<rates, other, route, env, now, ticks, redis, chainLogs, focus, pc, req, io, res>>

\* lines 150-153: a page request fails, the events are replaced by []
UserSavingsEventsFail ==
    /\ pc \in {"usersavings.events", "usersavings.paging"}
    /\ loc' = [loc EXCEPT !.events = << >>]
    /\ io' = io \cup {<<"events", SavingsVault>>}
    /\ pc' = "usersavings.compute"
    /\ UNCHANGED <<rates, other, route, env, now, ticks, redis, chainLogs, focus, req, res>>

\* lines 205-231: the calculation, the cache write, the response
UserSavingsCompute ==
    /\ pc = "usersavings.compute"
    /\ LET currentBalance == loc.savingsData.current_balance
           p == UserSavingsPosition(currentBalance, loc.savingsData.total_deposited,
                                    loc.events)
           response == [totalDeposited |-> p.totalDeposited,
                        totalRevenues |-> p.totalRevenues,
                        currentBalance |-> currentBalance,
                        events |-> loc.events]
           cacheKey == UserSavingsCacheKey(req.user)
       IN  /\ redis' = SetRedisCacheEntry(redis, cacheKey, response)
           /\ io' = io \cup {CacheSet(cacheKey)}
           /\ loc' = [loc EXCEPT !.calcs =
                         << [vault |-> SavingsVault, events |-> loc.events,
                             redeemValue |-> currentBalance,
                             deposited |-> p.totalDeposited,
                             earnings |-> p.totalRevenues] >>]
           /\ Respond(200, response)
    /\ UNCHANGED <<rates, other, route, env, now, ticks, chainLogs, focus, req>>

-----------------------------------------------------------------------------
(* src/unnamed/part_000: the vault-wide savings statistics handler *)

InfosCacheKey == "savings-infos"

\* prices.curve.fi /v1/crvusd/savings/statistics
ApiSavingsStats == [proj_apr : {7, 8}, supply : {1000}]

\* lines 69-73: the early return; Null when the request is accepted
InfosValidate(environment) ==
    IF "REDIS_URL" \notin environment
    THEN [status |-> 500, body |-> [message |-> "Redis server URL is not set"]]
    ELSE Null

\* lines 65-82: configuration, the cache read
InfosReceive ==
    /\ route = "infos"
    /\ CanReceive
    /\ req' = [method |-> "GET", user |-> "", chain |-> ""]
    /\ IF InfosValidate(env) # Null
       THEN /\ Reject(InfosValidate(env))
       ELSE /\ loc' = [cacheEntry |-> GetRedisCacheEntry(redis, InfosCacheKey)]
            /\ io' = {CacheGet(InfosCacheKey)}
            /\ pc' = "infos.cached"
            /\ res' = NoResponse
    /\ UNCHANGED <<rates, other, route, env, now, ticks, redis, chainLogs, focus>>

\* lines 84-86: serve the fresh entry, or go on to the statistics
InfosCheckCache ==
    /\ pc = "infos.cached"
    /\ IF /\ loc.cacheEntry # Null
          /\ ~IsCacheEntryUpdateNeeded(loc.cacheEntry.updateTimestamp, InfosCacheMinutes)
       THEN /\ Respond(200, loc.cacheEntry.data)
       ELSE /\ pc' = "infos.refresh"
            /\ UNCHANGED res
    /\ UNCHANGED <<rates, other, route, env, now, ticks, redis, chainLogs, focus, req, loc, io>>

\* lines 88-102: the statistics, the cache write, the response
InfosRefresh ==
    /\ pc = "infos.refresh"
    /\ \E statsData \in ApiSavingsStats :
         LET response == [tvl |-> statsData.supply, apr |-> statsData.proj_apr,
                          url |-> "https://crvusd.curve.fi/#/ethereum/scrvUSD"]
         IN  /\ redis' = SetRedisCacheEntry(redis, InfosCacheKey, response)
             /\ io' = io \cup {<<"stats", "savings">>, CacheSet(InfosCacheKey)}
             /\ Respond(200, response)
    /\ UNCHANGED <<rates, other, route, env, now, ticks, chainLogs, focus, req, loc>>

-----------------------------------------------------------------------------
(* Environment *)

CacheMinutes(r) == IF r = "infos" THEN InfosCacheMinutes ELSE PositionCacheMinutes

RedisEnvVar(r) == IF r = "savings" THEN "REDIS_SERVER_URL" ELSE "REDIS_URL"

\* time passes: a millisecond, or a whole freshness window
Tick ==
    /\ ticks < MaxTicks
    /\ \E d \in {1, CacheMinutes(route) * MsPerMinute} : now' = now + d
    /\ ticks' = ticks + 1
    /\ UNCHANGED <<rates, other, route, env, redis, chainLogs, focus, pc, req, loc, io, res>>

Init ==
    /\ route \in Routes
    /\ env \in {{}, {RedisEnvVar(route)}}
    /\ now = 0
    /\ ticks = 0
    /\ rates = ListedRates
    /\ redis = << >>
    /\ focus \in RouteChains(route)
    /\ chainLogs \in Ledgers(RouteVaults(route, focus))
    /\ pc = "idle"
    /\ req = [method |-> "POST", user |-> "", chain |-> ""]
    /\ loc = NoLocals
    /\ io = {}
    /\ res = NoResponse
    /\ other = IdleInstance

Next ==
    \/ Tick
    \/ LendingReceive
    \/ LendingCheckCache
    \/ LendingVaultReads
    \/ LendingVault
    \/ LendingCatalogFail
    \/ LendingVaultFail
    \/ LendingWriteWatermark
    \/ LendingFinish
    \/ MultiReceive
    \/ MultiCheckCache
    \/ MultiChain
    \/ MultiVaultReads
    \/ MultiVault
    \/ MultiChainsFail
    \/ MultiCatalogFail
    \/ MultiVaultFail
    \/ MultiFinish
    \/ SavingsReceive
    \/ SavingsCheckCache
    \/ SavingsRefresh
    \/ UserSavingsReceive
    \/ UserSavingsCheckCache
    \/ UserSavingsStats
    \/ UserSavingsStatsFail
    \/ UserSavingsFirstPage
    \/ UserSavingsNextPage
    \/ UserSavingsEventsFail
    \/ UserSavingsCompute
    \/ InfosReceive
    \/ InfosCheckCache
    \/ InfosRefresh

Spec == Init /\ [][Next]_vars

\* Concurrent requests: two instances of a handler serve requests against the
\* same store; the runtime switches between them at their awaits.
Switch ==
    /\ pc' = other.pc
    /\ req' = other.req
    /\ loc' = other.loc
    /\ io' = other.io
    /\ res' = other.res
    /\ other' = [pc |-> pc, req |-> req, loc |-> loc, io |-> io, res |-> res]
    /\ UNCHANGED <<route, env, now, ticks, redis, chainLogs, rates, focus>>

\* the user never used a vault, or deposited once into the wstETH vault
RaceLedgers ==
    { << >>,
      << [vault |-> "0x8cf1", owner |-> "0xA11ce", eventName |-> "Deposit",
          assets |-> Tokens(50), n |-> 1] >> }

InitRace ==
    /\ route = "multi"
    /\ env = {"REDIS_URL"}
    /\ now = 0
    /\ ticks = 0
    /\ rates = ListedRates
    /\ redis = << >>
    /\ focus = "ethereum"
    /\ chainLogs \in RaceLedgers
    /\ pc = "idle"
    /\ req = [method |-> "POST", user |-> "", chain |-> ""]
    /\ loc = NoLocals
    /\ io = {}
    /\ res = NoResponse
    /\ other = IdleInstance

NextRace ==
    \/ Tick
    \/ Switch
    \/ MultiReceive
    \/ MultiCheckCache
    \/ MultiChain
    \/ MultiVaultReads
    \/ MultiVault
    \/ MultiChainsFail
    \/ MultiCatalogFail
    \/ MultiVaultFail
    \/ MultiFinish

SpecRace == InitRace /\ [][NextRace]_vars

\* Clock skew: the statistics entry in the store was written by an instance
\* whose clock is behind or ahead of the clock of the instance that reads it.
SkewWindow == InfosCacheMinutes * MsPerMinute
SkewStart == 2 * SkewWindow
SkewedTimestamps ==
    { SkewStart + k * SkewWindow + j : k \in {-2, -1, 0, 1, 2}, j \in {-1, 0, 1} }

InitSkew ==
    /\ route = "infos"
    /\ env = {"REDIS_URL"}
    /\ now = SkewStart
    /\ ticks = 0
    /\ rates = ListedRates
    /\ \E t \in SkewedTimestamps, statsData \in ApiSavingsStats :
         redis = (InfosCacheKey :>
                    [updateTimestamp |-> t,
                     data |-> [tvl |-> statsData.supply, apr |-> statsData.proj_apr,
                               url |-> "https://crvusd.curve.fi/#/ethereum/scrvUSD"]])
    /\ chainLogs = << >>
    /\ focus = "ethereum"
    /\ pc = "idle"
    /\ req = [method |-> "GET", user |-> "", chain |-> ""]
    /\ loc = NoLocals
    /\ io = {}
    /\ res = NoResponse
    /\ other = IdleInstance

NextSkew ==
    \/ Tick
    \/ InfosReceive
    \/ InfosCheckCache
    \/ InfosRefresh

SpecSkew == InitSkew /\ [][NextSkew]_vars

-----------------------------------------------------------------------------
(* src/unnamed/part_002 alone, with every awaited request returning: the
   runtime resumes the handler after each await, so each continuation is
   weakly fair; a request that throws (UserSavingsEventsFail) is possible but
   never owed *)

InitPaging ==
    /\ Init
    /\ route = "usersavings"

NextPaging ==
    \/ Tick
    \/ UserSavingsReceive
    \/ UserSavingsCheckCache
    \/ UserSavingsStats
    \/ UserSavingsStatsFail
    \/ UserSavingsFirstPage
    \/ UserSavingsNextPage
    \/ UserSavingsEventsFail
    \/ UserSavingsCompute

SpecPaging ==
    /\ InitPaging
    /\ [][NextPaging]_vars
    /\ WF_vars(UserSavingsCheckCache)
    /\ WF_vars(UserSavingsStats \/ UserSavingsStatsFail)
    /\ WF_vars(UserSavingsFirstPage)
    /\ WF_vars(UserSavingsNextPage)
    /\ WF_vars(UserSavingsCompute)

-----------------------------------------------------------------------------
(* src/unnamed/part_002 for users whose events fill more than one page *)

\* a user with exactly one full page of events, and one with a full page
\* and one event more
PagedLedgers ==
    { [i \in 1..k |-> [vault |-> SavingsVault, owner |-> "0xA11ce",
                        eventName |-> "Deposit", assets |-> Tokens(50), n |-> i]]
      : k \in {PerPage, PerPage + 1} }

InitPages ==
    /\ route = "usersavings"
    /\ env \in {{}, {RedisEnvVar(route)}}
    /\ now = 0
    /\ ticks = 0
    /\ rates = ListedRates
    /\ redis = << >>
    /\ focus = "ethereum"
    /\ chainLogs \in Ledgers(RouteVaults(route, focus)) \cup PagedLedgers
    /\ pc = "idle"
    /\ req = [method |-> "POST", user |-> "", chain |-> ""]
    /\ loc = NoLocals
    /\ io = {}
    /\ res = NoResponse
    /\ other = IdleInstance

SpecPages == InitPages /\ [][NextPaging]_vars

-----------------------------------------------------------------------------
(* src/api/lending.ts, getLendingVaultStartBlock on its own: one call for
   each chain and address *)

LookupChains == SupportedChains \cup {"optimism"}

\* every address of the two switches, and one that has no case
LookupAddresses ==
    { EthereumStartBlocks[i][1] : i \in DOMAIN EthereumStartBlocks }
      \cup { ArbitrumStartBlocks[i][1] : i \in DOMAIN ArbitrumStartBlocks }
      \cup { "0x0b71" }

InitStartBlock ==
    /\ route = "lending"
    /\ env = {"REDIS_URL"}
    /\ now = 0
    /\ ticks = 0
    /\ rates = ListedRates
    /\ redis = << >>
    /\ chainLogs = << >>
    /\ focus = "ethereum"
    /\ pc = "startblock.call"
    /\ req = [method |-> "POST", user |-> "", chain |-> ""]
    /\ \E chain \in LookupChains, vaultAddress \in LookupAddresses :
          loc = [chain |-> chain, vaultAddress |-> vaultAddress,
                 startBlock |-> Undefined]
    /\ io = {}
    /\ res = NoResponse
    /\ other = IdleInstance

StartBlockLookup ==
    /\ pc = "startblock.call"
    /\ loc' = [loc EXCEPT !.startBlock =
                   GetLendingVaultStartBlock(loc.chain, loc.vaultAddress)]
    /\ pc' = "startblock.return"
    /\ UNCHANGED <<rates, other, route, env, now, ticks, redis, chainLogs, focus, req, io, res>>

NextStartBlock == StartBlockLookup

SpecStartBlock == InitStartBlock /\ [][NextStartBlock]_vars

-----------------------------------------------------------------------------
(* Two users of one store: each handler serving requests for both *)

\* in one vault of the route, a deposit of the second user, alone or after
\* a deposit of the first
UsersLedgers(vaults) ==
    UNION { { << [vault |-> v, owner |-> "0xB0b", eventName |-> "Deposit",
                  assets |-> Tokens(60), n |-> 1] >>,
              << [vault |-> v, owner |-> "0xA11ce", eventName |-> "Deposit",
                  assets |-> Tokens(50), n |-> 1],
                 [vault |-> v, owner |-> "0xB0b", eventName |-> "Deposit",
                  assets |-> Tokens(60), n |-> 2] >> } : v \in vaults }

InitUsers ==
    /\ route \in Routes
    /\ env = {RedisEnvVar(route)}
    /\ now = 0
    /\ ticks = 0
    /\ rates = ListedRates
    /\ redis = << >>
    /\ focus = "ethereum"
    /\ chainLogs \in (IF route = "infos" THEN {<< >>}
                      ELSE UsersLedgers(RouteVaults(route, focus)))
    /\ pc = "idle"
    /\ req = [method |-> "POST", user |-> "", chain |-> ""]
    /\ loc = NoLocals
    /\ io = {}
    /\ res = NoResponse
    /\ other = IdleInstance

SpecUsers == InitUsers /\ [][Next]_vars

-----------------------------------------------------------------------------
(* An indexer that also reports events of other kinds *)

\* in one vault of the route: no event; a transfer; a deposit and a transfer
KindsLedgers(vaults) ==
    { << >> } \cup
    UNION { { << [vault |-> v, owner |-> "0xA11ce", eventName |-> "Transfer",
                  assets |-> Tokens(60), n |-> 1] >>,
              << [vault |-> v, owner |-> "0xA11ce", eventName |-> "Deposit",
                  assets |-> Tokens(50), n |-> 1],
                 [vault |-> v, owner |-> "0xA11ce", eventName |-> "Transfer",
                  assets |-> Tokens(60), n |-> 2] >> } : v \in vaults }

InitKinds ==
    /\ route \in Routes
    /\ env = {RedisEnvVar(route)}
    /\ now = 0
    /\ ticks = 0
    /\ rates = ListedRates
    /\ redis = << >>
    /\ focus = "ethereum"
    /\ chainLogs \in (IF route = "infos" THEN {<< >>}
                      ELSE KindsLedgers(RouteVaults(route, focus)))
    /\ pc = "idle"
    /\ req = [method |-> "POST", user |-> "", chain |-> ""]
    /\ loc = NoLocals
    /\ io = {}
    /\ res = NoResponse
    /\ other = IdleInstance

SpecKinds == InitKinds /\ [][Next]_vars

\* The catalog moves between requests: the lend APY the catalog reports for a
\* vault of the chain falls to zero (nothing is borrowed from it any more).
RatesChange ==
    /\ \E v \in DOMAIN rates :
          /\ ChainOfVault(v) = focus
          /\ rates[v] > 0
          /\ rates' = [rates EXCEPT ![v] = 0]
    /\ UNCHANGED <<other, route, env, now, ticks, redis, chainLogs, focus, pc, req, loc, io, res>>

InitCatalog ==
    /\ Init
    /\ route = "lending"

NextCatalog ==
    \/ Tick
    \/ RatesChange
    \/ LendingReceive
    \/ LendingCheckCache
    \/ LendingVaultReads
    \/ LendingVault
    \/ LendingCatalogFail
    \/ LendingVaultFail
    \/ LendingWriteWatermark
    \/ LendingFinish

\* successive requests to the per-chain lending handler while the catalog moves
SpecCatalog == InitCatalog /\ [][NextCatalog]_vars

\* the user deposited once into the arbitrum vault
PairLedgers ==
    { << [vault |-> "0x4901", owner |-> "0xA11ce", eventName |-> "Deposit",
          assets |-> Tokens(50), n |-> 1] >> }

InitPair ==
    /\ route = "lending"
    /\ env = {"REDIS_URL"}
    /\ now = 0
    /\ ticks = 0
    /\ rates = ListedRates
    /\ redis = << >>
    /\ focus = "arbitrum"
    /\ chainLogs \in PairLedgers
    /\ pc = "idle"
    /\ req = [method |-> "POST", user |-> "", chain |-> ""]
    /\ loc = NoLocals
    /\ io = {}
    /\ res = NoResponse
    /\ other = IdleInstance

NextPair ==
    \/ Switch
    \/ RatesChange
    \/ LendingReceive
    \/ LendingCheckCache
    \/ LendingVaultReads
    \/ LendingVault
    \/ LendingCatalogFail
    \/ LendingVaultFail
    \/ LendingWriteWatermark
    \/ LendingFinish

\* two instances of the per-chain lending handler serve concurrent requests
\* while the catalog moves
SpecPair == InitPair /\ [][NextPair]_vars

-----------------------------------------------------------------------------
(* Properties *)

\* the sum of the amounts of the events of one type
RECURSIVE AmountOf(_, _)
AmountOf(events, type) ==
    IF events = << >> THEN 0
    ELSE (IF Head(events).type = type THEN Head(events).amount ELSE 0)
           + AmountOf(Tail(events), type)

NetFlow(events) == AmountOf(events, "deposit") - AmountOf(events, "withdraw")

HasLocal(name) == name \in DOMAIN loc
Snapshots == IF HasLocal("allVaultsEvents") THEN loc.allVaultsEvents ELSE << >>
Calcs == IF HasLocal("calcs") THEN loc.calcs ELSE << >>

ValuationCalled(vault) ==
    <<"balanceOf", vault>> \in io \/ <<"previewRedeem", vault>> \in io

\* C1: in the multi-chain and the per-chain lending handlers, every vault
\* computed with a redeemable value > 0 has deposited = sum of deposits - sum
\* of withdrawals of its events, unfloored, and earnings = redeemValue -
\* deposited, and the snapshot pushed for it carries these figures.
C1_PositiveValuation ==
    route \in {"lending", "multi"} =>
        \A i \in DOMAIN Calcs :
            LET c == Calcs[i]
                s == Snapshots[i]
            IN  c.redeemValue > 0 =>
                  /\ c.deposited = NetFlow(c.events)
                  /\ c.earnings = c.redeemValue - NetFlow(c.events)
                  /\ s.redeemValue = c.redeemValue
                  /\ s.earnings = c.earnings
                  /\ (route = "multi" => s.deposited = c.deposited)

\* a served multi-chain snapshot with a positive valuation and more
\* withdrawn than deposited: deposited is negative
C1_Witness ==
    /\ route = "multi" /\ pc = "done" /\ res.status = 200
    /\ \E i \in DOMAIN Snapshots :
         /\ Snapshots[i].redeemValue > 0
         /\ Snapshots[i].deposited < 0
         /\ Snapshots[i].earnings > Snapshots[i].redeemValue

\* C2: in the multi-chain handler every vault with redeemValue = 0, and in
\* the user-savings handler every result with currentBalance = 0, has
\* deposited = 0 and earnings = sum of withdrawals - sum of deposits of the
\* fetched events.
C2_ClosedPositionIndexed ==
    /\ route = "multi" =>
         \A i \in DOMAIN Snapshots :
            LET s == Snapshots[i]
            IN  s.redeemValue = 0 =>
                  /\ s.deposited = 0
                  /\ s.earnings = AmountOf(s.events, "withdraw")
                                    - AmountOf(s.events, "deposit")
    /\ (route = "usersavings" /\ pc = "done" /\ res.status = 200
          /\ "currentBalance" \in DOMAIN res.body) =>
         (res.body.currentBalance = 0 =>
            /\ res.body.totalDeposited = 0
            /\ res.body.totalRevenues = AmountOf(res.body.events, "withdraw")
                                          - AmountOf(res.body.events, "deposit"))

\* a user-savings result of a closed position that realised a profit
C2_Witness ==
    /\ route = "usersavings" /\ pc = "done" /\ res.status = 200
    /\ <<"stats", req.user>> \in io
    /\ "currentBalance" \in DOMAIN res.body
    /\ res.body.currentBalance = 0
    /\ Len(res.body.events) = 2
    /\ res.body.totalRevenues = 10

\* C3: in the per-chain lending and savings handlers a vault with events
\* and redeemValue = 0 reports deposited 0 and earnings = sum of
\* withdrawals - sum of deposits.
C3_ClosedPositionOnChain ==
    route \in {"lending", "savings"} =>
        \A i \in DOMAIN Calcs :
            LET c == Calcs[i]
            IN  (Len(c.events) > 0 /\ c.redeemValue = 0) =>
                  /\ c.deposited = 0
                  /\ c.earnings = AmountOf(c.events, "withdraw")
                                    - AmountOf(c.events, "deposit")

\* C4: in the multi-chain handler a vault whose events are empty gets an
\* all-zero snapshot and no balanceOf / previewRedeem call is made for it.
C4_EmptyHistoryMulti ==
    route = "multi" =>
        \A i \in DOMAIN Snapshots :
            LET s == Snapshots[i]
            IN  s.events = << >> =>
                  /\ s.redeemValue = 0
                  /\ s.deposited = 0
                  /\ s.earnings = 0
                  /\ ~ValuationCalled(s.address)

\* a refresh that valued one vault and skipped the valuation of an empty one
C4_Witness ==
    /\ route = "multi" /\ pc = "done" /\ res.status = 200
    /\ \E i, j \in DOMAIN Snapshots :
         /\ Snapshots[i].events = << >>
         /\ <<"events", Snapshots[i].address>> \in io
         /\ ~ValuationCalled(Snapshots[i].address)
         /\ Snapshots[j].events # << >>
         /\ ValuationCalled(Snapshots[j].address)

\* C5: in the per-chain lending and savings handlers a vault whose event
\* set is empty reports deposited 0 and earnings 0 and no balanceOf /
\* previewRedeem call is made for it.
C5_EmptyHistoryOnChain ==
    route \in {"lending", "savings"} =>
        \A i \in DOMAIN Calcs :
            LET c == Calcs[i]
            IN  c.events = << >> =>
                  /\ c.deposited = 0
                  /\ c.earnings = 0
                  /\ ~ValuationCalled(c.vault)

CachedPcs == {"lending.cached", "multi.cached", "savings.cached",
              "usersavings.cached", "infos.cached"}

\* where a handler goes when it does not serve the cached entry
RefreshPc(r) ==
    CASE r = "lending" -> "lending.loop"
      [] r = "multi" -> "multi.loop"
      [] r = "savings" -> "savings.refresh"
      [] r = "usersavings" -> "usersavings.stats"
      [] OTHER -> "infos.refresh"

\* the handler turns to the collaborators: it goes on to its refresh, or the
\* first collaborator it calls fails the request
Recomputes ==
    \/ pc' = RefreshPc(route)
    \/ /\ pc' = "done" /\ res'.status = 500
       /\ \E c \in io' \ io : c[1] \notin {"redis.get", "redis.set"}

\* the freshness window of a handler, in ms
WindowMs(r) == (IF r = "infos" THEN 20 ELSE 60) * 60000

\* the handler decides about the entry it read
DecidesOnEntry == pc \in CachedPcs /\ pc' # pc /\ loc.cacheEntry # Null

OnlyCacheReads == \A c \in io : c[1] = "redis.get"

\* C6: an entry written at T and read at T + w is served without any
\* collaborator call or cache write when w <= W (w = W included) and is
\* recomputed when w > W; W is 60 minutes, 20 for the statistics handler.
C6_FreshnessWindow ==
    [][ DecidesOnEntry =>
          LET w == now - loc.cacheEntry.updateTimestamp
          IN  /\ (0 <= w /\ w <= WindowMs(route)) =>
                    /\ pc' = "done" /\ res'.status = 200
                    /\ io' = io /\ OnlyCacheReads /\ redis' = redis
              /\ w > WindowMs(route) => Recomputes ]_vars

\* the statistics entry served exactly 20 minutes after it was written
C6_Witness ==
    /\ route = "infos" /\ pc = "done" /\ res.status = 200
    /\ io = {CacheGet(InfosCacheKey)}
    /\ loc.cacheEntry # Null
    /\ now - loc.cacheEntry.updateTimestamp = 20 * 60000
    /\ res.body = loc.cacheEntry.data

\* C7: staleness is decided on |now - updateTimestamp|: an entry stamped
\* more than W minutes in the future is recomputed, as is every entry read
\* more than W minutes after its stamp, and the clock never goes back, so
\* an entry that is not rewritten is stale at every read from then on.
C7_AbsoluteStaleness ==
    [][ /\ now' >= now
        /\ DecidesOnEntry =>
              LET t == loc.cacheEntry.updateTimestamp
                  distance == IF t > now THEN t - now ELSE now - t
              IN  (distance > WindowMs(route)) <=> (pc' = RefreshPc(route)) ]_vars

\* an entry stamped more than 20 minutes ahead of the reader's clock is
\* being recomputed
C7_Witness ==
    /\ route = "infos" /\ pc = "infos.refresh"
    /\ loc.cacheEntry # Null
    /\ loc.cacheEntry.updateTimestamp - now > 20 * 60000

BodyData(body) ==
    IF route \in {"lending", "multi", "savings"} THEN body.data ELSE body

\* C8: a request that finds a cached and fresh entry answers with that
\* entry's data, calls no collaborator and writes nothing to the store.
C8_CacheHitFrame ==
    [][ (/\ DecidesOnEntry
         /\ Abs(now - loc.cacheEntry.updateTimestamp) <= WindowMs(route)) =>
          /\ pc' = "done" /\ res'.status = 200
          /\ BodyData(res'.body) = loc.cacheEntry.data
          /\ io' = io /\ OnlyCacheReads
          /\ redis' = redis ]_vars

\* the per-chain lending handler served stored snapshots after reading
\* nothing but the snapshot key and the watermark key
C8_Witness ==
    /\ route = "lending" /\ pc = "done" /\ res.status = 200
    /\ "data" \in DOMAIN res.body
    /\ res.body.data # << >>
    /\ res.body.data = redis[LendingCacheKey(req.chain, req.user)].data
    /\ io = {CacheGet(LendingCacheKey(req.chain, req.user)),
             CacheGet(LendingLastEventBlockKey(req.chain, req.user))}

\* C9: in the per-chain handlers a request with a malformed user or an
\* unsupported chain makes no cache read, no cache write and no
\* collaborator call, and (the cache being configured) is answered 400.
C9_ValidationPrecedesIO ==
    (/\ route \in {"lending", "savings"}
     /\ pc = "done"
     /\ (req.user \notin ValidUsers \/ req.chain \notin {"ethereum", "arbitrum"})) =>
        /\ io = {}
        /\ res.status \in {400, 500}
        /\ (IF route = "savings" THEN "REDIS_SERVER_URL" ELSE "REDIS_URL") \in env
              => res.status = 400

\* a well-formed user asking for an unsupported chain was refused
C9_Witness ==
    /\ route = "lending" /\ pc = "done"
    /\ req.user \in ValidUsers /\ req.chain = "optimism"
    /\ "REDIS_URL" \in env
    /\ res.status = 400 /\ io = {}

\* C10: without the cache connection target every reconciliation request
\* (a POST, where the handler looks at the method) is answered 500 whatever
\* its user and chain, and no cache or collaborator call is made.
C10_MissingConfiguration ==
    (/\ pc = "done"
     /\ (IF route = "savings" THEN "REDIS_SERVER_URL" ELSE "REDIS_URL") \notin env
     /\ (route \in {"multi", "usersavings"} => req.method = "POST")) =>
        /\ res.status = 500
        /\ io = {}
        /\ DOMAIN redis = {}

\* a POST with a malformed user got 500 from the unconfigured multi-chain
\* handler
C10_Witness ==
    /\ route = "multi" /\ pc = "done" /\ env = {}
    /\ req.method = "POST" /\ req.user \notin ValidUsers
    /\ res.status = 500 /\ io = {}

\* the key under which the handler stores the position of the request's user
PositionKey ==
    CASE route = "lending" -> LendingCacheKey(req.chain, req.user)
      [] route = "multi" -> MultiCacheKey(req.user)
      [] route = "savings" -> SavingsCacheKey(req.chain, req.user)
      [] route = "usersavings" -> UserSavingsCacheKey(req.user)
      [] OTHER -> InfosCacheKey

\* the request has recomputed and stored the position
Recomputed == pc = "done" /\ CacheSet(PositionKey) \in io

\* the request replaced an entry, and received the vaults, events and
\* redeemable values from which that entry had been computed
SameInputsAsBefore ==
    /\ Recomputed
    /\ loc.cacheEntry # Null
    /\ LET old == loc.cacheEntry.data
       IN  CASE route = "lending" ->
                  /\ Len(old) = Len(loc.allVaultsEvents)
                  /\ \A i \in DOMAIN old :
                        /\ old[i].vault = loc.allVaultsEvents[i].vault
                        /\ old[i].events = loc.allVaultsEvents[i].events
                        /\ old[i].redeemValue = loc.calcs[i].redeemValue
             [] route = "multi" ->
                  /\ Len(old) = Len(loc.allVaultsEvents)
                  /\ \A i \in DOMAIN old :
                        /\ old[i].address = loc.allVaultsEvents[i].address
                        /\ old[i].events = loc.calcs[i].events
                        /\ old[i].redeemValue = loc.calcs[i].redeemValue
             [] route = "savings" ->
                  /\ old.events = loc.calcs[1].events
                  /\ old.totalRevenues + old.totalDeposited = loc.calcs[1].redeemValue
             [] route = "usersavings" ->
                  /\ old.events = loc.events
                  /\ old.currentBalance = loc.savingsData.current_balance
                  /\ old.currentBalance > 0 =>
                        old.totalDeposited = loc.savingsData.total_deposited
             [] OTHER -> FALSE

HistoryNetFlow(vault, owner) ==
    LET r[i \in 0..Len(chainLogs)] ==
            IF i = 0 THEN 0
            ELSE IF chainLogs[i].vault = vault /\ chainLogs[i].owner = owner
                 THEN (IF chainLogs[i].eventName = "Deposit"
                       THEN r[i - 1] + FormatUnits(chainLogs[i].assets, 18)
                       ELSE r[i - 1] - FormatUnits(chainLogs[i].assets, 18))
                 ELSE r[i - 1]
    IN  r[Len(chainLogs)]

\* C12: after any sequence of refreshes of the per-chain lending handler,
\* resumed from the watermark or not, the earnings reported for a vault with
\* redeemValue > 0 are redeemValue minus the net flow of the user's whole
\* history in that vault.
C12_HistoryCompleteness ==
    (route = "lending" /\ Recomputed) =>
        \A i \in DOMAIN loc.calcs :
            loc.calcs[i].redeemValue > 0 =>
                loc.calcs[i].earnings =
                    loc.calcs[i].redeemValue - HistoryNetFlow(loc.calcs[i].vault, req.user)

\* the block numbers of the events the refresh observed, all vaults together
ObservedBlocks ==
    UNION { { loc.allVaultsEvents[v].events[i].blockNumber :
                i \in 1..Len(loc.allVaultsEvents[v].events) } :
            v \in 1..Len(loc.allVaultsEvents) }

\* C13: when a refresh of the per-chain lending handler ends, the watermark
\* stored for (user, chain) is the highest block number among the events the
\* refresh observed in any vault (none stored when it observed no event), and
\* it was written together with the new snapshots.
C13_WatermarkValue ==
    (route = "lending" /\ Recomputed) =>
        LET watermark == redis[LendingLastEventBlockKey(req.chain, req.user)]
            snapshots == redis[LendingCacheKey(req.chain, req.user)]
        IN  /\ IF ObservedBlocks = {}
               THEN watermark.data = [isNull |-> TRUE]
               ELSE /\ watermark.data.isNull = FALSE
                    /\ watermark.data.n \in ObservedBlocks
                    /\ \A b \in ObservedBlocks : b <= watermark.data.n
            /\ snapshots.data = loc.allVaultsEvents
            /\ {CacheSet(LendingLastEventBlockKey(req.chain, req.user)),
                CacheSet(LendingCacheKey(req.chain, req.user))} \subseteq io

\* a refresh that observed events in two different blocks has ended
C13_Witness ==
    /\ route = "lending" /\ Recomputed
    /\ Cardinality(ObservedBlocks) >= 2
    /\ redis[LendingLastEventBlockKey(req.chain, req.user)].data.isNull = FALSE

\* the instance in control took a step of its handler (control did not pass
\* to the other instance)
HandlerStep == other' = other /\ req' = req

\* C14: with two instances racing on one key and no lock, every set leaves
\* under the key exactly the complete value of the request that executed it,
\* whatever was there (last write wins, never a merge); and no entry is
\* permanent: a read more than 60 minutes after the entry's timestamp
\* recomputes instead of returning it.
C14_LastWriteWins ==
    [][ /\ (HandlerStep /\ CacheSet(PositionKey) \in io' \ io) =>
              /\ PositionKey \in DOMAIN redis'
              /\ redis'[PositionKey] =
                     [updateTimestamp |-> now, data |-> res'.body.data]
              /\ \A k \in DOMAIN redis \ {PositionKey} :
                     k \in DOMAIN redis' /\ redis'[k] = redis[k]
        /\ (\neg HandlerStep \/ CacheSet(PositionKey) \in io \/ CacheSet(PositionKey) \notin io')
              => redis' = redis
        /\ (HandlerStep /\ DecidesOnEntry
              /\ now - loc.cacheEntry.updateTimestamp > WindowMs(route))
              => Recomputes ]_vars

\* both instances missed the cache and recomputed; the one in control wrote
\* last, and the store holds its value, not the other's
C14_Witness ==
    /\ route = "multi"
    /\ Recomputed /\ loc.cacheEntry = Null
    /\ other.pc = "done" /\ CacheSet(PositionKey) \in other.io
    /\ other.req = req /\ other.loc.cacheEntry = Null
    /\ other.res.body.data # res.body.data
    /\ redis[PositionKey].data = res.body.data

\* the chains whose vault list the request has fetched
CatalogChains == { c \in SupportedChainsMulti \cup {"optimism"} : <<"catalog", c>> \in io }

\* the addresses of a list of vault descriptors or snapshots
Addresses(list, field) == [i \in 1..Len(list) |-> list[i][field]]

\* C15: while vaults remain to be processed nothing is written to the cache
\* and no response is sent; the stored and returned result of a refresh has
\* exactly one snapshot per vault of the catalog, in the catalog's order (per
\* chain in the multi-chain handler), never a partial list.
C15_FanIn ==
    /\ pc \in {"lending.loop", "multi.loop"} =>
          /\ res = NoResponse
          /\ \A c \in io : c[1] # "redis.set"
    /\ (route = "lending" /\ Recomputed) =>
          /\ loc.vaults = << >>
          /\ Addresses(redis[PositionKey].data, "vault")
                = Addresses(LendingFetchVaultsList(req.chain), "address")
          /\ res.body.allVaultsEvents = redis[PositionKey].data
    /\ (route = "multi" /\ Recomputed) =>
          /\ loc.vaults = << >> /\ loc.chains = << >>
          /\ res.body.data = redis[PositionKey].data
          /\ \A i \in DOMAIN res.body.data : res.body.data[i].chainId \in CatalogChains
          /\ \A c \in CatalogChains :
                Addresses(SelectSeq(res.body.data, LAMBDA v : v.chainId = c), "address")
                  = Addresses(MultiFetchVaultsList(c), "address")

\* the per-chain lending handler answered for ethereum with the snapshots of
\* both catalog vaults
C15_Witness ==
    /\ route = "lending" /\ Recomputed /\ req.chain = "ethereum"
    /\ Len(res.body.allVaultsEvents) = 2
    /\ Len(LendingFetchVaultsList("ethereum")) = 2

\* C16: within one refresh the reads for different vaults are issued
\* concurrently: while the reads of one vault are in flight and another
\* vault of the list is still to be completed, reads for two distinct vaults
\* are in flight.
C16_FanOut ==
    (/\ pc \in {"lending.loop", "multi.loop"}
     /\ loc.inFlight # {}
     /\ Len(loc.vaults) >= 2) =>
        Cardinality(loc.inFlight) >= 2

\* a call that is neither a cache read nor a cache write
IsCollaboratorCall(c) == c[1] \notin {"redis.get", "redis.set"}

\* C17: in the lending handlers a request that turned to the collaborators
\* and ended without storing a result (a collaborator failed for the catalog
\* or for one vault) is answered 500 with no snapshot in the body, ends at
\* the failing call, and leaves every key of the store as it was.
C17_UpstreamFailure ==
    [][ (/\ HandlerStep
         /\ route \in {"lending", "multi"}
         /\ pc \in {"lending.cached", "lending.loop", "multi.cached", "multi.loop"}
         /\ pc' = "done"
         /\ CacheSet(PositionKey) \notin io'
         /\ \E c \in io' : IsCollaboratorCall(c)) =>
            /\ res'.status = 500
            /\ DOMAIN res'.body = {"message"}
            /\ \E c \in io' \ io : IsCollaboratorCall(c)
            /\ \A c \in io' : c[1] # "redis.set"
            /\ redis' = redis ]_vars

\* the valuation of the second ethereum vault failed after the first vault's
\* snapshot had been computed; the stale entry is still in the store
C17_Witness ==
    /\ route = "lending" /\ pc = "done" /\ res.status = 500
    /\ HasLocal("allVaultsEvents")
    /\ Len(loc.allVaultsEvents) = 1
    /\ <<"previewRedeem", "0x5AE2">> \in io
    /\ loc.cacheEntry # Null
    /\ redis[PositionKey] = loc.cacheEntry

\* C18: in the multi-chain handler every chain for which a client is built
\* and vaults are fetched is one of the supported chains, whatever the chains
\* list holds.
C18_UnsupportedChains ==
    route = "multi" =>
        \A c \in io : c[1] \in {"client", "catalog"} => c[2] \in {"ethereum", "arbitrum", "fraxtal"}

\* C19: when the statistics fetch of the user-savings handler fails, the
\* answer is 200 with totalDeposited, currentBalance and totalRevenues 0 and
\* no events; the events are not fetched and the store is not written, so
\* the next request finds the cache as this one found it and asks the
\* collaborators again.
C19_StatsFailure ==
    [][ (/\ HandlerStep
         /\ route = "usersavings"
         /\ pc = "usersavings.stats"
         /\ pc' = "done") =>
            /\ res' = [status |-> 200,
                       body |-> [totalDeposited |-> 0, currentBalance |-> 0,
                                 totalRevenues |-> 0, events |-> << >>]]
            /\ io' = io \cup {<<"stats", req.user>>}
            /\ \A c \in io' : c[1] \notin {"events", "redis.set"}
            /\ redis' = redis
            /\ IF loc.cacheEntry = Null
               THEN UserSavingsCacheKey(req.user) \notin DOMAIN redis'
               ELSE /\ redis'[UserSavingsCacheKey(req.user)] = loc.cacheEntry
                    /\ IsCacheEntryUpdateNeeded(loc.cacheEntry.updateTimestamp,
                                                PositionCacheMinutes) ]_vars

\* the statistics fetch failed for a user whose entry had gone stale
C19_Witness ==
    /\ route = "usersavings" /\ pc = "done"
    /\ HasLocal("savingsData") /\ loc.savingsData = Null
    /\ <<"stats", req.user>> \in io
    /\ res.status = 200 /\ res.body.currentBalance = 0
    /\ loc.cacheEntry # Null
    /\ redis[UserSavingsCacheKey(req.user)] = loc.cacheEntry

\* C20: whatever count the events API reports, fetchSavingsEvents, once
\* called, requests finitely many pages and returns, so that the request is
\* answered, every page request returning.
C20_PaginationTerminates ==
    (route = "usersavings" /\ pc = "usersavings.events") ~> (pc = "done")

\* the transaction hashes of a list of events
Hashes(events) == { events[i].hash : i \in 1..Len(events) }

\* C21: whatever count n the events API reports, the list fetchSavingsEvents
\* returns holds all n events of the user, those of every page and not only
\* the first PerPage of them.
C21_PaginationExhaustive ==
    (/\ route = "usersavings"
     /\ pc = "usersavings.compute"
     /\ loc.page >= 1
     /\ ~MorePages(Len(ApiSavingsEvents(req.user)))) =>
        /\ Len(loc.events) = Len(ApiSavingsEvents(req.user))
        /\ Hashes(loc.events) =
             { ApiSavingsEvents(req.user)[i].transaction_hash :
                 i \in 1..Len(ApiSavingsEvents(req.user)) }

\* the field that orders the events of a handler
OrdinalKey ==
    IF route \in {"lending", "savings"} THEN "blockNumber" ELSE "timestamp"

IsDescending(events, key) ==
    \A i \in 1..(Len(events) - 1) : events[i][key] >= events[i + 1][key]

\* C22: in every handler the event list of each snapshot that a refresh
\* stores and returns is in descending order of its ordinal (block number
\* or timestamp), the most recent event first.
C22_EventOrdering ==
    Recomputed =>
        LET data == redis[PositionKey].data
        IN  /\ data = (IF route = "lending" THEN res.body.allVaultsEvents
                       ELSE IF route \in {"multi"} THEN res.body.data
                       ELSE IF route = "savings"
                            THEN [totalDeposited |-> res.body.totalDeposited,
                                  totalRevenues |-> res.body.totalRevenues,
                                  events |-> res.body.events]
                       ELSE res.body)
            /\ CASE route \in {"lending", "multi"} ->
                      \A i \in DOMAIN data : IsDescending(data[i].events, OrdinalKey)
                 [] route \in {"savings", "usersavings"} ->
                      IsDescending(data.events, OrdinalKey)
                 [] OTHER -> TRUE

\* every arrangement of the events of a list
Arrangements(events) ==
    { [i \in 1..Len(events) |-> events[f[i]]] :
        f \in { g \in [1..Len(events) -> 1..Len(events)] :
                  \A i, j \in 1..Len(events) : g[i] = g[j] => i = j } }

\* C23: deposited and earnings do not depend on the order of the events:
\* computed from any permutation of the events of a vault and the same
\* redeemValue they are what the handler computed.
C23_OrderIndependence ==
    route \in {"lending", "multi"} =>
        \A i \in DOMAIN Calcs :
            \A perm \in Arrangements(Calcs[i].events) :
                IF route = "lending"
                THEN LET d == LendingTotalDeposited(Calcs[i].redeemValue, perm)
                     IN  /\ d = Calcs[i].deposited
                         /\ LendingEarnings(Calcs[i].redeemValue, d) = Calcs[i].earnings
                ELSE MultiReadsValuation(perm) =>
                       LET p == MultiPosition(Calcs[i].redeemValue,
                                              SumOfType(perm, EventTypeDeposit),
                                              SumOfType(perm, EventTypeWithdraw))
                       IN  /\ p.deposited = Calcs[i].deposited
                           /\ p.earnings = Calcs[i].earnings

\* the per-chain lending handler valued a position with a deposit and a
\* withdrawal of different amounts
C23_Witness ==
    /\ route = "lending"
    /\ \E i \in DOMAIN Calcs :
          /\ Calcs[i].redeemValue > 0
          /\ Len(Calcs[i].events) = 2
          /\ Calcs[i].events[1].type # Calcs[i].events[2].type
          /\ Calcs[i].events[1].amount # Calcs[i].events[2].amount

\* the request went to the collaborators, none of them failed, and it was
\* answered 200
ReconciledWithSuccess ==
    /\ pc = "done" /\ res.status = 200
    /\ \E c \in io : IsCollaboratorCall(c)
    /\ route = "usersavings" => loc.savingsData # Null

\* C24: once a request has completed a reconciliation from the collaborators
\* and answered 200, the store holds an entry under the key of the request,
\* from which an identical request within the window is served.
C24_SnapshotCreation ==
    ReconciledWithSuccess => PositionKey \in DOMAIN redis

\* C25: every 200 response of a position handler that read the store is a
\* body {status, data}, on a cache hit as on a refresh, and its data are the
\* data of the entry served or written: the hit returns the body of the
\* refresh that wrote the entry.
C25_ResponseShape ==
    (/\ route \in {"lending", "multi", "savings", "usersavings"}
     /\ pc = "done" /\ res.status = 200
     /\ io # {}) =>
        /\ DOMAIN res.body = {"status", "data"}
        /\ PositionKey \in DOMAIN redis
        /\ res.body.data = redis[PositionKey].data

\* the vaults the catalog API lists for the chains the request asked about
Listed ==
    UNION { { ApiVaults(c)[i] : i \in 1..Len(ApiVaults(c)) } : c \in CatalogChains }

\* C26: the snapshots a lending handler stores and returns are those of the
\* listed vaults with a lend yield above zero, in the multi-chain handler
\* of those among them whose collateral symbol is not crvusd in any
\* capitalisation; none of these vaults is left out.
C26_CatalogFilter ==
    (route \in {"lending", "multi"} /\ Recomputed) =>
        LET field == IF route = "lending" THEN "vault" ELSE "address"
            data == redis[PositionKey].data
        IN  /\ \A i \in DOMAIN data :
                  /\ data[i].lendApyPcent > 0
                  /\ route = "multi" =>
                        data[i].collateral \notin {"crvusd", "crvUSD", "CRVUSD"}
            /\ { data[i][field] : i \in DOMAIN data }
                 = { v.address : v \in
                       { w \in Listed :
                           /\ w.lendApyPcent > 0
                           /\ route = "multi" =>
                                 w.collateral \notin {"crvusd", "crvUSD", "CRVUSD"} } }

\* the multi-chain handler went through ethereum and arbitrum, whose lists
\* hold a vault without yield and a vault with crvUSD as collateral
C26_Witness ==
    /\ route = "multi" /\ Recomputed
    /\ CatalogChains = {"ethereum", "arbitrum"}
    /\ \E v \in Listed : v.lendApyPcent = 0
    /\ \E v \in Listed : v.lendApyPcent > 0 /\ v.collateral = "crvUSD"
    /\ Len(res.body.data) = 2

\* the start blocks registered for a chain, as <<address, block>> pairs
Registered(chain) ==
    IF chain = "ethereum"
    THEN { EthereumStartBlocks[i] : i \in DOMAIN EthereumStartBlocks }
    ELSE IF chain = "arbitrum"
    THEN { ArbitrumStartBlocks[i] : i \in DOMAIN ArbitrumStartBlocks }
    ELSE {}

\* C27: for ethereum and arbitrum getLendingVaultStartBlock returns, for an
\* address registered for the chain, the block registered with it, and for
\* any other address the greatest block registered for the chain; for any
\* other chain it returns undefined.
C27_StartBlockLookup ==
    pc = "startblock.return" =>
        LET table == Registered(loc.chain)
        IN  IF loc.chain \notin {"ethereum", "arbitrum"}
            THEN loc.startBlock = Undefined
            ELSE IF \E r \in table : r[1] = loc.vaultAddress
            THEN \A r \in table : r[1] = loc.vaultAddress => r[2] = loc.startBlock
            ELSE /\ \E r \in table : r[2] = loc.startBlock
                 /\ \A r \in table : r[2] <= loc.startBlock

\* the lookup of an address that has no case among those of arbitrum
C27_Witness ==
    /\ pc = "startblock.return"
    /\ loc.chain = "arbitrum"
    /\ loc.vaultAddress = "0x0b71"
    /\ loc.startBlock = 268473102

\* the blocks of the user's events in a vault from a block on
BlocksFrom(vault, owner, fromBlock) ==
    { BlockOf(chainLogs[i]) : i \in { j \in DOMAIN chainLogs :
                                        /\ chainLogs[j].vault = vault
                                        /\ chainLogs[j].owner = owner
                                        /\ BlockOf(chainLogs[j]) >= fromBlock } }

\* C28: in a refresh of the per-chain lending handler that read no watermark
\* block for (user, chain) the scan of each vault starts at the block in
\* which that vault was deployed; in a refresh that read a watermark block
\* the scan of every vault starts at that block, the block itself included,
\* whatever the vault's own block.
C28_ScanStart ==
    route = "lending" =>
        \A i \in DOMAIN Calcs :
            LET c == Calcs[i]
                seen == { c.events[k].blockNumber : k \in DOMAIN c.events }
            IN  /\ IF loc.lastUserEventBlockNumber = Null
                   THEN c.fromBlock = InceptionBlock(c.vault)
                   ELSE c.fromBlock = loc.lastUserEventBlockNumber.n
                /\ seen = BlocksFrom(c.vault, req.user, c.fromBlock)

\* a refresh resumed from the watermark scanned a vault deployed after the
\* watermark block, and another vault's event in the watermark block itself
C28_Witness ==
    /\ route = "lending" /\ pc = "done" /\ HasLocal("lastUserEventBlockNumber")
    /\ loc.lastUserEventBlockNumber # Null
    /\ \E i \in DOMAIN Calcs :
          Calcs[i].fromBlock < InceptionBlock(Calcs[i].vault)
    /\ \E i \in DOMAIN Calcs :
          /\ Calcs[i].events # << >>
          /\ Calcs[i].events[1].blockNumber = loc.lastUserEventBlockNumber.n

\* the hashes of the events in the data of a stored or returned position
EventHashes(data) ==
    IF route \in {"lending", "multi"}
    THEN UNION { Hashes(data[i].events) : i \in DOMAIN data }
    ELSE IF route \in {"savings", "usersavings"} THEN Hashes(data.events)
    ELSE {}

\* the position data of a 200 response, on a hit or after a refresh
ResponseData ==
    IF "data" \in DOMAIN res.body THEN res.body.data
    ELSE IF "allVaultsEvents" \in DOMAIN res.body THEN res.body.allVaultsEvents
    ELSE res.body

\* the hashes of the events of a user in the ledger
OwnedBy(u) == { chainLogs[i].n : i \in { j \in DOMAIN chainLogs : chainLogs[j].owner = u } }

\* the snapshot keys of each handler, with the handler, user and chain
SnapshotKeys ==
    { <<"lending", u, c, "lending-" \o c \o "-" \o u>> : u \in ValidUsers, c \in SupportedChains }
      \cup { <<"multi", u, "", "lending-" \o u>> : u \in ValidUsers }
      \cup { <<"savings", u, c, "savings-" \o c \o "-" \o u>> : u \in ValidUsers, c \in SupportedChains }
      \cup { <<"usersavings", u, "", "savings-" \o u>> : u \in ValidUsers }
      \cup { <<"infos", "", "", "savings-infos">> }

WatermarkKeys ==
    { "lending-" \o c \o "-" \o u \o "-last-event-block" : u \in ValidUsers, c \in SupportedChains }

\* the keys the route's handler may touch for user u and chain c
KeysFor(u, c) ==
    { k[4] : k \in { x \in SnapshotKeys : x[1] = route /\ x[2] \in {u, ""} /\ x[3] \in {c, ""} } }
      \cup (IF route = "lending"
            THEN {"lending-" \o c \o "-" \o u \o "-last-event-block"} ELSE {})

\* C29: a 200 response to a request for user u holds events of u only; a
\* request for (u, chain) reads and writes only the keys made of u (and of
\* chain where the handler takes one), and what the store holds under a key
\* of u are events of u; the snapshot keys of different handlers, users and
\* chains are all different, and none is a watermark key.
C29_CacheIsolation ==
    /\ (route # "infos" /\ pc = "done" /\ res.status = 200 /\ io # {}) =>
           EventHashes(ResponseData) \subseteq OwnedBy(req.user)
    /\ \A c \in io : IsCacheIo(c) => c[2] \in KeysFor(req.user, req.chain)
    /\ \A k \in SnapshotKeys :
           (k[1] = route /\ k[1] # "infos" /\ k[4] \in DOMAIN redis) =>
               EventHashes(redis[k[4]].data) \subseteq OwnedBy(k[2])
    /\ \A k1, k2 \in SnapshotKeys : k1[4] = k2[4] => k1 = k2
    /\ \A k \in SnapshotKeys : k[4] \notin WatermarkKeys

\* the multi-chain handler holds the position of one user and has answered
\* the request of the other with that user's own deposit
C29_Witness ==
    /\ route = "multi" /\ pc = "done" /\ res.status = 200
    /\ req.user = "0xB0b"
    /\ "lending-0xA11ce" \in DOMAIN redis
    /\ EventHashes(redis["lending-0xA11ce"].data) = {1}
    /\ "data" \in DOMAIN res.body
    /\ EventHashes(res.body.data) = {2}

\* the user's events in a vault as the ledger has them, deposits or all
\* the others
LedgerLogs(vault, owner, deposits) ==
    SelectSeq(chainLogs, LAMBDA e : /\ e.vault = vault /\ e.owner = owner
                                    /\ (e.eventName = "Deposit") = deposits)

RECURSIVE AssetsSum(_)
AssetsSum(logs) ==
    IF logs = << >> THEN 0
    ELSE FormatUnits(Head(logs).assets, 18) + AssetsSum(Tail(logs))

\* the hashes of the events of one type in a list
HashesOfType(events, type) ==
    { events[i].hash : i \in { j \in DOMAIN events : events[j].type = type } }

\* C30: each event the indexer returns is counted once: in the deposit sum
\* when its kind is the deposit tag and in the withdrawal sum for any other
\* kind, known or not; no event is left out of the list or of the sums.
C30_KindPartition ==
    /\ route = "multi" =>
          \A i \in DOMAIN Calcs :
              LET c == Calcs[i]
                  d == LedgerLogs(c.vault, req.user, TRUE)
                  w == LedgerLogs(c.vault, req.user, FALSE)
              IN  /\ Len(c.events) = Len(d) + Len(w)
                  /\ HashesOfType(c.events, "deposit") = { d[k].n : k \in DOMAIN d }
                  /\ HashesOfType(c.events, "withdraw") = { w[k].n : k \in DOMAIN w }
                  /\ c.depositedInVault = AssetsSum(d)
                  /\ c.withdrawnFromVault = AssetsSum(w)
    /\ (/\ route = "usersavings"
        /\ pc \in {"usersavings.compute", "done"}
        /\ HasLocal("page") /\ loc.page = 1
        /\ ~MorePages(Len(ApiSavingsEvents(req.user)))) =>
          LET d == LedgerLogs(SavingsVault, req.user, TRUE)
              w == LedgerLogs(SavingsVault, req.user, FALSE)
          IN  /\ Len(loc.events) = Len(d) + Len(w)
              /\ HashesOfType(loc.events, "deposit") = { d[k].n : k \in DOMAIN d }
              /\ HashesOfType(loc.events, "withdraw") = { w[k].n : k \in DOMAIN w }
              /\ \A i \in DOMAIN Calcs :
                    Calcs[i].redeemValue = 0 =>
                        Calcs[i].earnings = AssetsSum(w) - AssetsSum(d)

\* the multi-chain handler counted a transfer among the withdrawals of a
\* vault, next to a deposit
C30_Witness ==
    /\ route = "multi"
    /\ \E i \in DOMAIN Calcs :
          /\ Calcs[i].depositedInVault = 50
          /\ Calcs[i].withdrawnFromVault = 60
          /\ \E k \in DOMAIN chainLogs :
                /\ chainLogs[k].eventName = "Transfer"
                /\ chainLogs[k].vault = Calcs[i].vault
                /\ chainLogs[k].n \in HashesOfType(Calcs[i].events, "withdraw")

\* the request's events fetch failed: the first page was never received, or
\* the loop over the following pages was left by a failing request
EventsFetchFailed ==
    /\ route = "usersavings"
    /\ pc \in {"usersavings.compute", "done"}
    /\ HasLocal("page")
    /\ loc.savingsData # Null
    /\ (loc.page = 0 \/ MorePages(Len(ApiSavingsEvents(req.user))))

\* C33: a result of the user-savings handler computed after the events
\* fetch failed, with the empty list in place of the events, is not written
\* to the store.
C33_EventsFailureNotCached ==
    (EventsFetchFailed /\ pc = "done") =>
        /\ CacheSet(UserSavingsCacheKey(req.user)) \notin io
        /\ UserSavingsCacheKey(req.user) \notin DOMAIN redis
             \/ redis[UserSavingsCacheKey(req.user)] = loc.cacheEntry

\* C32: across the refreshes of the per-chain lending handler for one (user,
\* chain), the watermark stored under the key never decreases, and once it
\* holds a block number it never goes back to holding none.
C32_WatermarkMonotone ==
    [][ \A k \in WatermarkKeys \cap DOMAIN redis :
           IF redis[k].data = Null THEN TRUE
           ELSE /\ k \in DOMAIN redis'
                /\ IF redis'[k].data = Null THEN FALSE
                   ELSE redis'[k].data.n >= redis[k].data.n ]_vars

\* no instance is between the two sets of its Promise.all
NoWriteInFlight == pc # "lending.write" /\ other.pc # "lending.write"

\* C31: in the per-chain lending handler, whatever the interleaving of
\* concurrent requests for one (user, chain), once no request is between its
\* two writes a stored snapshot set and a stored watermark come from the same
\* refresh: the watermark is the highest event block of the stored snapshot
\* set (none when the set has no event).
C31_SnapshotWatermarkPaired ==
    (route = "lending" /\ NoWriteInFlight) =>
        \A u \in ValidUsers, c \in SupportedChains :
            LET cacheKey == LendingCacheKey(c, u)
                lastUserEventBlockKey == LendingLastEventBlockKey(c, u)
            IN  {cacheKey, lastUserEventBlockKey} \subseteq DOMAIN redis =>
                    redis[lastUserEventBlockKey].data =
                        JsonNumber(LendingLastBlock(redis[cacheKey].data))

====
